---- MODULE Spec2Model ----
(***************************************************************************)
(* chroma-admin: the protocol client (lib/chromaClient), its connection    *)
(* settings store (lib/storage) and response schemas (lib/zodSchemas).     *)
(*                                                                         *)
(* Strings are sequences of tokens, so that template literals are          *)
(* concatenations (\o), startsWith is a test on the first token and        *)
(* includes is a sub-sequence test.  A nullable value is a sequence of     *)
(* length at most one: <<>> is null/undefined, <<x>> is x.                 *)
(***************************************************************************)
EXTENDS Integers, Sequences, FiniteSets, TLC

VARIABLES
    localStorage,        \* browser localStorage: key -> stored string
    detectedApiVersion,  \* chromaClient: let detectedApiVersion
    cachedCapabilities,  \* chromaClient: let cachedCapabilities
    server,              \* the remote server: which heartbeat routes answer 2xx
    dc,                  \* the running detectCapabilities() call
    tc,                  \* the running testConnection() call
    op,                  \* the running collection operation (listCollections, ...)
    calls,               \* how many client calls the pages have made so far
    urlCall,             \* one application of resolveUrl(path)
    fetchCall,           \* one application of chromaFetch(path, schema, opts)
    req,                 \* the headers of the request built last
    probeLog,            \* the probes of the detectCapabilities() call, as settled
    ga,                  \* the running getAllItems() call
    km,                  \* one application of kMeans(points, k, maxIter)
    pca,                 \* one application of pcaProject(embeddings)
    heat,                \* the SimilarityHeatmap component: props, state and memos
    wr                   \* one application of deleteCollection, addItems or deleteItems

vars == <<localStorage, detectedApiVersion, cachedCapabilities, server,
          dc, tc, op, calls, urlCall, fetchCall, req, probeLog, ga,
          km, pca, heat, wr>>

\* ---------------------------------------------------------------- strings

StartsWith(s, p) ==
    /\ Len(p) <= Len(s)
    /\ SubSeq(s, 1, Len(p)) = p

\* String.prototype.includes
Includes(s, p) ==
    \E i \in 0..(Len(s) - Len(p)) : SubSeq(s, i + 1, i + Len(p)) = p

\* encodeURIComponent: reserved characters are percent-encoded
encodeURIComponent(s) ==
    [i \in 1..Len(s) |->
        IF s[i] = "/" THEN "%2F"
        ELSE IF s[i] = " " THEN "%20"
        ELSE s[i]]

\* ---------------------------------------------------------------- storage

STORAGE_KEYS ==
    [BASE_URL |-> "chroma-admin:baseUrl",
     CONNECTION_MODE |-> "chroma-admin:connectionMode",
     AUTH_TYPE |-> "chroma-admin:authType",
     AUTH_CREDENTIALS |-> "chroma-admin:authCredentials"]

\* localStorage.getItem(key) ?? fallback
getItemOr(key, fallback) ==
    IF key \in DOMAIN localStorage THEN localStorage[key] ELSE fallback

getBaseUrl == getItemOr(STORAGE_KEYS.BASE_URL, <<"http://localhost:8000">>)

getConnectionMode == getItemOr(STORAGE_KEYS.CONNECTION_MODE, <<"direct">>)

\* The base URLs a user stores (setBaseUrl strips trailing slashes).
BaseUrls ==
    {<<"http://localhost:8000">>, <<"https://chroma.example.com">>,
     <<"http://10.0.0.5:8000">>}

ConnectionModes == {<<"direct">>, <<"proxy">>}

\* Every localStorage content over the two connection keys, set or unset.
Storages ==
    {[k \in {} |-> <<>>]}
    \cup {(STORAGE_KEYS.BASE_URL :> b) : b \in BaseUrls}
    \cup {(STORAGE_KEYS.CONNECTION_MODE :> m) : m \in ConnectionModes}
    \cup {(STORAGE_KEYS.BASE_URL :> b) @@ (STORAGE_KEYS.CONNECTION_MODE :> m) :
            b \in BaseUrls, m \in ConnectionModes}

\* ---------------------------------------------------------------- authentication

\* localStorage.getItem(AUTH_TYPE) ?? "none"
getAuthType == getItemOr(STORAGE_KEYS.AUTH_TYPE, <<"none">>)

AuthTypes == {<<"none">>, <<"token">>, <<"basic">>, <<"x-chroma-token">>}

\* An AuthCredentials object.  Each field is <<>> when absent and <<s>> when it
\* holds the string s, a sequence of characters.
Credentials(token, username, password) ==
    [token |-> token, username |-> username, password |-> password]

NoCredentials == Credentials(<<>>, <<>>, <<>>)

CredentialKeys == <<"token", "username", "password">>

\* The key of a member as it stands in JSON text.
KeyToken == [token |-> "\"token\"", username |-> "\"username\"",
             password |-> "\"password\""]

RECURSIVE JoinMembers(_, _)
JoinMembers(credentials, keys) ==
    IF keys = <<>> THEN <<>>
    ELSE LET k == Head(keys)
             rest == JoinMembers(credentials, Tail(keys))
             member == <<KeyToken[k], ":", "\"">> \o credentials[k][1] \o <<"\"">>
         IN  IF credentials[k] = <<>> THEN rest
             ELSE IF rest = <<>> THEN member
             ELSE member \o <<",">> \o rest

\* JSON.stringify(credentials): {"token":"..."}; absent fields are left out.
JSONstringify(credentials) ==
    <<"{">> \o JoinMembers(credentials, CredentialKeys) \o <<"}">>

\* The members of JSON text from position i on, up to the closing brace; acc is
\* the object read so far.  <<>> is a SyntaxError, <<object>> the object parsed.
RECURSIVE ParseMembers(_, _, _)
ParseMembers(txt, i, acc) ==
    LET keys == {k \in {"token", "username", "password"} : KeyToken[k] = txt[i]}
        closes == {j \in (i + 3)..Len(txt) : txt[j] = "\""}
    IN  IF i + 3 > Len(txt) \/ keys = {} \/ txt[i + 1] # ":" \/ txt[i + 2] # "\""
           \/ closes = {}
        THEN <<>>
        ELSE LET k == CHOOSE x \in keys : TRUE
                 j == CHOOSE x \in closes : \A y \in closes : x <= y
                 acc2 == [acc EXCEPT ![k] = <<SubSeq(txt, i + 3, j - 1)>>]
             IN  IF j + 1 = Len(txt) /\ txt[j + 1] = "}" THEN <<acc2>>
                 ELSE IF j + 1 < Len(txt) /\ txt[j + 1] = ","
                 THEN ParseMembers(txt, j + 2, acc2)
                 ELSE <<>>

\* JSON.parse(raw) of a credentials text.
JSONparse(raw) ==
    IF raw = <<"{", "}">> THEN <<NoCredentials>>
    ELSE IF Len(raw) < 2 \/ raw[1] # "{" THEN <<>>
    ELSE ParseMembers(raw, 2, NoCredentials)

\* getAuthCredentials: {} when nothing is stored or the text does not parse.
getAuthCredentials ==
    LET raw == getItemOr(STORAGE_KEYS.AUTH_CREDENTIALS, <<>>)
    IN  IF raw = <<>> \/ JSONparse(raw) = <<>> THEN NoCredentials
        ELSE JSONparse(raw)[1]

\* The characters credentials are written in, with their codes.
CharCode ==
    ("t" :> 116) @@ ("k" :> 107) @@ ("u" :> 117) @@ ("p" :> 112)
        @@ ("w" :> 119) @@ (":" :> 58)

Base64Chars ==
    <<"A", "B", "C", "D", "E", "F", "G", "H", "I", "J", "K", "L", "M",
      "N", "O", "P", "Q", "R", "S", "T", "U", "V", "W", "X", "Y", "Z",
      "a", "b", "c", "d", "e", "f", "g", "h", "i", "j", "k", "l", "m",
      "n", "o", "p", "q", "r", "s", "t", "u", "v", "w", "x", "y", "z",
      "0", "1", "2", "3", "4", "5", "6", "7", "8", "9", "+", "/">>

\* Base64 of a sequence of bytes: three bytes make four characters, "=" pads.
RECURSIVE btoaBytes(_)
btoaBytes(b) ==
    IF b = <<>> THEN <<>>
    ELSE LET n == Len(b)
             b1 == b[1]
             b2 == IF n > 1 THEN b[2] ELSE 0
             b3 == IF n > 2 THEN b[3] ELSE 0
         IN  <<Base64Chars[(b1 \div 4) + 1],
               Base64Chars[((b1 % 4) * 16 + (b2 \div 16)) + 1],
               IF n > 1 THEN Base64Chars[((b2 % 16) * 4 + (b3 \div 64)) + 1] ELSE "=",
               IF n > 2 THEN Base64Chars[(b3 % 64) + 1] ELSE "=">>
             \o (IF n > 3 THEN btoaBytes(SubSeq(b, 4, n)) ELSE <<>>)

\* btoa(s)
btoa(s) == btoaBytes([i \in 1..Len(s) |-> CharCode[s[i]]])

NoHeaders == [h \in {} |-> <<>>]

\* creds.token ? ... : a field that is absent or the empty string is falsy.
Truthy(field) == field # <<>> /\ field[1] # <<>>

\* getAuthHeaders with the Authorization header sent for every type but "none".
getAuthHeaders_alwaysBearer ==
    LET creds == getAuthCredentials
        bearer == "Authorization" :>
                    (<<"Bearer ">> \o (IF creds.token = <<>> THEN <<>> ELSE creds.token[1]))
    IN  IF getAuthType = <<"none">> THEN NoHeaders
        ELSE IF getAuthType = <<"x-chroma-token">> /\ Truthy(creds.token)
        THEN bearer @@ ("X-Chroma-Token" :> creds.token[1])
        ELSE bearer

\* getAuthHeaders(): the headers for the stored auth type.
getAuthHeaders ==
    LET type == getAuthType
        creds == getAuthCredentials
    IN  IF type = <<"token">>
        THEN (IF Truthy(creds.token)
              THEN "Authorization" :> (<<"Bearer ">> \o creds.token[1])
              ELSE NoHeaders)
        ELSE IF type = <<"basic">>
        THEN (IF ~Truthy(creds.username) THEN NoHeaders
              ELSE "Authorization" :>
                    (<<"Basic ">>
                        \o btoa(creds.username[1] \o <<":">>
                                \o (IF creds.password = <<>> THEN <<>>
                                    ELSE creds.password[1]))))
        ELSE IF type = <<"x-chroma-token">>
        THEN (IF Truthy(creds.token)
              THEN "X-Chroma-Token" :> creds.token[1]
              ELSE NoHeaders)
        ELSE NoHeaders

\* The places of the client that call fetch().
RequestSites ==
    {"chromaFetch", "probeUrl", "deleteCollection", "addItems", "deleteItems"}

ContentTypeJson == "Content-Type" :> <<"application/json">>

\* The headers object each place builds.  In an object literal a later spread
\* overrides an earlier key; no caller of chromaFetch passes opts.headers.
RequestHeaders(site) ==
    IF site \in {"chromaFetch", "addItems", "deleteItems"}
    THEN getAuthHeaders @@ ContentTypeJson
    ELSE getAuthHeaders

\* ---------------------------------------------------------------- API version

NULL == "null"

ApiVersions == {"v2", "v1"}

DEFAULT_TENANT == "default_tenant"

DEFAULT_DATABASE == "default_database"

\* apiPrefix with the v1 branch lost: the tenant/database prefix always.
apiPrefix_tenantOnly ==
    <<"/", "api", "/", "v2", "/", "tenants", "/", DEFAULT_TENANT,
      "/", "databases", "/", DEFAULT_DATABASE>>

\* apiPrefix with the v2 branch lost: the flat prefix of the cached version.
apiPrefix_flatOnly ==
    <<"/", "api", "/",
      IF detectedApiVersion = NULL THEN "v2" ELSE detectedApiVersion>>

\* apiBase returning the collection prefix.
apiBase_asPrefix ==
    IF detectedApiVersion = "v1"
    THEN <<"/", "api", "/", "v1">>
    ELSE <<"/", "api", "/", "v2", "/", "tenants", "/", DEFAULT_TENANT,
           "/", "databases", "/", DEFAULT_DATABASE>>

apiPrefix ==
    LET v == IF detectedApiVersion = NULL THEN "v2" ELSE detectedApiVersion
    IN  IF v = "v2"
        THEN <<"/", "api", "/", "v2", "/", "tenants", "/", DEFAULT_TENANT,
               "/", "databases", "/", DEFAULT_DATABASE>>
        ELSE <<"/", "api", "/", "v1">>

apiBase ==
    LET v == IF detectedApiVersion = NULL THEN "v2" ELSE detectedApiVersion
    IN  <<"/", "api", "/", v>>

\* ---------------------------------------------------------------- URL resolution

\* resolveUrl without the leading-slash normalisation.
resolveUrl_verbatim(path) ==
    IF getConnectionMode = <<"proxy">>
    THEN <<"/", "api">> \o path
    ELSE getBaseUrl \o path

resolveUrl(path) ==
    LET mode == getConnectionMode
        base == getBaseUrl
        cleanPath == IF StartsWith(path, <<"/">>) THEN path ELSE <<"/">> \o path
    IN  IF mode = <<"proxy">>
        THEN <<"/", "api">> \o cleanPath
        ELSE base \o cleanPath

\* ---------------------------------------------------------------- JSON and schemas

\* A JSON value is a record tagged by its type: t is "string", "number", "null",
\* "array" (elements in a) or "object" (members in o).
JStr(s) == [t |-> "string", s |-> s]

JNum(n) == [t |-> "number", n |-> n]

JNull == [t |-> "null"]

JArr(a) == [t |-> "array", a |-> a]

JObj(o) == [t |-> "object", o |-> o]

\* z.string().optional() / z.number().optional() on an object member
OptionalOf(o, k, type) == k \notin DOMAIN o \/ o[k].t = type

\* z.array(<type>.nullable()).nullable().optional() on an object member
NullishArrayOfNullable(o, k, type) ==
    \/ k \notin DOMAIN o
    \/ o[k].t = "null"
    \/ /\ o[k].t = "array"
       /\ \A i \in 1..Len(o[k].a) : o[k].a[i].t \in {type, "null"}

\* z.array(z.array(z.number()).nullable()).nullable().optional()
NullishArrayOfNullableNumberArrays(o, k) ==
    \/ k \notin DOMAIN o
    \/ o[k].t = "null"
    \/ /\ o[k].t = "array"
       /\ \A i \in 1..Len(o[k].a) :
            \/ o[k].a[i].t = "null"
            \/ /\ o[k].a[i].t = "array"
               /\ \A n \in 1..Len(o[k].a[i].a) : o[k].a[i].a[n].t = "number"

HeartbeatSchema(j) ==
    /\ j.t = "object"
    /\ OptionalOf(j.o, "nanosecond heartbeat", "number")

VersionSchema(j) == j.t = "string"

CollectionSchema(j) ==
    /\ j.t = "object"
    /\ "id" \in DOMAIN j.o /\ j.o["id"].t = "string"
    /\ "name" \in DOMAIN j.o /\ j.o["name"].t = "string"
    /\ ("metadata" \notin DOMAIN j.o \/ j.o["metadata"].t \in {"null", "object"})
    /\ OptionalOf(j.o, "tenant", "string")
    /\ OptionalOf(j.o, "database", "string")

CollectionListSchema(j) ==
    /\ j.t = "array"
    /\ \A i \in 1..Len(j.a) : CollectionSchema(j.a[i])

GetItemsResponseSchema(j) ==
    /\ j.t = "object"
    /\ "ids" \in DOMAIN j.o /\ j.o["ids"].t = "array"
    /\ \A i \in 1..Len(j.o["ids"].a) : j.o["ids"].a[i].t = "string"
    /\ NullishArrayOfNullableNumberArrays(j.o, "embeddings")
    /\ NullishArrayOfNullable(j.o, "documents", "string")
    /\ NullishArrayOfNullable(j.o, "metadatas", "object")
    /\ NullishArrayOfNullable(j.o, "uris", "string")

QueryResponseSchema(j) ==
    /\ j.t = "object"
    /\ "ids" \in DOMAIN j.o /\ j.o["ids"].t = "array"
    /\ \A q \in 1..Len(j.o["ids"].a) :
        /\ j.o["ids"].a[q].t = "array"
        /\ \A i \in 1..Len(j.o["ids"].a[q].a) : j.o["ids"].a[q].a[i].t = "string"
    /\ NullishArrayOfNullableNumberArrays(j.o, "distances")

CountSchema(j) == j.t = "number"

Schemas ==
    {"HeartbeatSchema", "VersionSchema", "CollectionListSchema", "CollectionSchema",
     "CountSchema", "GetItemsResponseSchema", "QueryResponseSchema"}

\* schema.parse(json) succeeds (otherwise it throws a ZodError)
SchemaParses(schema, j) ==
    CASE schema = "HeartbeatSchema" -> HeartbeatSchema(j)
      [] schema = "VersionSchema" -> VersionSchema(j)
      [] schema = "CollectionListSchema" -> CollectionListSchema(j)
      [] schema = "CollectionSchema" -> CollectionSchema(j)
      [] schema = "CountSchema" -> CountSchema(j)
      [] schema = "GetItemsResponseSchema" -> GetItemsResponseSchema(j)
      [] schema = "QueryResponseSchema" -> QueryResponseSchema(j)

\* ---------------------------------------------------------------- the server's answers

\* Response bodies, by name.  BodyText is the text res.text() yields, BodyIsJson
\* whether res.json() parses it and BodyJson the value it parses to.
Bodies ==
    {"empty", "html", "errjson", "hb", "ver", "count", "colls0", "colls1",
     "collsBad", "coll", "items", "itemsSparse", "itemsBad", "query"}

BodyText(b) ==
    CASE b = "empty" -> <<>>
      [] b = "html" -> <<"<html>", "Not Found", "</html>">>
      [] OTHER -> <<"json:", b>>

BodyIsJson(b) == b \notin {"empty", "html"}

Coll1 == JObj([id |-> JStr("c1"), name |-> JStr("docs"), metadata |-> JNull])

BodyJson(b) ==
    CASE b = "errjson" -> JObj([error |-> JStr("NotFoundError")])
      [] b = "hb" -> JObj(("nanosecond heartbeat" :> JNum(1700)))
      [] b = "ver" -> JStr("0.4.24")
      [] b = "count" -> JNum(3)
      [] b = "colls0" -> JArr(<<>>)
      [] b = "colls1" -> JArr(<<Coll1>>)
      [] b = "collsBad" -> JArr(<<Coll1, JObj([name |-> JStr("orphan")])>>)
      [] b = "coll" -> Coll1
      [] b = "items" ->
            JObj([ids |-> JArr(<<JStr("a"), JStr("b")>>),
                  documents |-> JArr(<<JStr("doc a"), JNull>>),
                  metadatas |-> JArr(<<JNull, JObj([k |-> JStr("v")])>>),
                  embeddings |-> JArr(<<JArr(<<JNum(1), JNum(0)>>), JNull>>)])
      [] b = "itemsSparse" ->
            JObj([ids |-> JArr(<<JStr("a")>>), embeddings |-> JNull])
      [] b = "itemsBad" ->
            JObj([ids |-> JArr(<<JStr("a"), JNum(7)>>)])
      [] b = "query" ->
            JObj([ids |-> JArr(<<JArr(<<JStr("a")>>)>>),
                  distances |-> JArr(<<JArr(<<JNum(0)>>)>>)])

\* What `await fetch(...)` settles to: a thrown error (name, message) or a
\* Response (status, statusText, body; textFails when reading the body rejects).
Thrown(name, message) ==
    [kind |-> "throw", name |-> name, message |-> message,
     status |-> 0, statusText |-> <<>>, body |-> "empty", textFails |-> FALSE]

Response(status, statusText, body, textFails) ==
    [kind |-> "response", name |-> "", message |-> <<>>,
     status |-> status, statusText |-> statusText, body |-> body,
     textFails |-> textFails]

FetchThrows ==
    {Thrown("TypeError", <<"Failed to fetch">>),
     Thrown("TypeError", <<"NetworkError", " when attempting to fetch resource.">>),
     Thrown("TypeError", <<"Load failed">>),
     Thrown("TypeError", <<"Failed to parse URL">>),
     Thrown("AbortError", <<"The operation was aborted.">>),
     Thrown("Error", <<"socket hang up">>)}

OkResponses ==
    {Response(200, <<"OK">>, b, FALSE) : b \in Bodies}
    \cup {Response(204, <<"No Content">>, "empty", FALSE)}

ErrorResponses ==
    {Response(404, <<"Not Found">>, "html", FALSE),
     Response(404, <<"Not Found">>, "errjson", FALSE),
     Response(304, <<"Not Modified">>, "empty", FALSE),
     Response(401, <<"Unauthorized">>, "errjson", FALSE),
     Response(500, <<"Internal Server Error">>, "empty", FALSE),
     Response(502, <<"Bad Gateway">>, "html", TRUE)}

FetchResults == FetchThrows \cup OkResponses \cup ErrorResponses

\* Response.ok
ResOk(res) == res.kind = "response" /\ res.status >= 200 /\ res.status <= 299

\* ---------------------------------------------------------------- errors

\* A thrown JavaScript error.  status is <<>> when the field is undefined.
JsError(name, message) ==
    [name |-> name, message |-> message, status |-> <<>>, isCors |-> FALSE]

\* new ChromaError(message, status?, isCors = false)
ChromaError(message, status, isCors) ==
    [name |-> "ChromaError", message |-> message, status |-> status,
     isCors |-> isCors]

\* What an async function settles to: a returned value or a thrown error.
\* reads lists the reads made of the Response, in order.
Return(value, reads) ==
    [kind |-> "return", value |-> value, err |-> <<>>, reads |-> reads]

Throw(err, reads) ==
    [kind |-> "throw", value |-> "", err |-> <<err>>, reads |-> reads]

\* ---------------------------------------------------------------- core fetch wrapper

DEFAULT_TIMEOUT == 15000

\* The try block without the `if (!res.ok)` test: every body goes to res.json().
chromaFetchTry_noOkCheck(res, schema) ==
    IF res.kind = "throw"
    THEN Throw(JsError(res.name, res.message), <<>>)
    ELSE IF ~BodyIsJson(res.body)
    THEN Throw(JsError("SyntaxError", <<"Unexpected end of JSON input">>), <<"json">>)
    ELSE IF ~SchemaParses(schema, BodyJson(res.body))
    THEN Throw(JsError("ZodError", <<"[issues]">>), <<"json", "schema.parse">>)
    ELSE Return(res.body, <<"json", "schema.parse">>)

\* The try block returning the parsed JSON as it is (`return json as T`).
chromaFetchTry_unvalidated(res, schema) ==
    IF res.kind = "throw"
    THEN Throw(JsError(res.name, res.message), <<>>)
    ELSE IF ~ResOk(res)
    THEN LET text == IF res.textFails THEN <<>> ELSE BodyText(res.body)
         IN  Throw(ChromaError(<<"Chroma HTTP ", ToString(res.status), ": ">>
                                \o (IF text # <<>> THEN text ELSE res.statusText),
                               <<res.status>>, FALSE),
                   <<"text">>)
    ELSE IF ~BodyIsJson(res.body)
    THEN Throw(JsError("SyntaxError", <<"Unexpected end of JSON input">>), <<"json">>)
    ELSE Return(res.body, <<"json">>)

\* The try block of chromaFetch, from the settlement of fetch() on.
chromaFetchTry(res, schema) ==
    IF res.kind = "throw"
    THEN Throw(JsError(res.name, res.message), <<>>)
    ELSE IF ~ResOk(res)
    THEN LET text == IF res.textFails THEN <<>> ELSE BodyText(res.body)
         IN  Throw(ChromaError(<<"Chroma HTTP ", ToString(res.status), ": ">>
                                \o (IF text # <<>> THEN text ELSE res.statusText),
                               <<res.status>>, FALSE),
                   <<"text">>)
    ELSE IF ~BodyIsJson(res.body)
    THEN Throw(JsError("SyntaxError", <<"Unexpected end of JSON input">>), <<"json">>)
    ELSE IF ~SchemaParses(schema, BodyJson(res.body))
    THEN Throw(JsError("ZodError", <<"[issues]">>), <<"json", "schema.parse">>)
    ELSE Return(res.body, <<"json", "schema.parse">>)

\* The catch block without the cross-origin test.
chromaFetchCatch_noCors(e, timeout) ==
    IF e.name = "ChromaError" THEN e
    ELSE IF e.name = "ZodError"
    THEN ChromaError(<<"Invalid response shape: ">> \o e.message, <<>>, FALSE)
    ELSE IF e.name = "AbortError"
    THEN ChromaError(<<"Request timed out after ", ToString(timeout), "ms">>,
                     <<>>, FALSE)
    ELSE ChromaError(e.message, <<>>, FALSE)

\* The catch block of chromaFetch.
chromaFetchCatch(e, timeout) ==
    IF e.name = "ChromaError" THEN e
    ELSE IF e.name = "ZodError"
    THEN ChromaError(<<"Invalid response shape: ">> \o e.message, <<>>, FALSE)
    ELSE IF /\ e.name = "TypeError"
            /\ \/ Includes(e.message, <<"Failed to fetch">>)
               \/ Includes(e.message, <<"NetworkError">>)
               \/ Includes(e.message, <<"Load failed">>)
    THEN ChromaError(<<"Network error - this is likely a CORS issue. ",
                       "Make sure the Chroma server has CORS enabled or use the Vite dev proxy.">>,
                     <<>>, TRUE)
    ELSE IF e.name = "AbortError"
    THEN ChromaError(<<"Request timed out after ", ToString(timeout), "ms">>,
                     <<>>, FALSE)
    ELSE ChromaError(e.message, <<>>, FALSE)

\* chromaFetch(path, schema, {timeout}) once fetch() has settled to res.
chromaFetch(res, schema, timeout) ==
    LET t == chromaFetchTry(res, schema)
    IN  IF t.kind = "return" THEN t
        ELSE Throw(chromaFetchCatch(t.err[1], timeout), t.reads)

\* ---------------------------------------------------------------- initial state

Servers == [hb2 : BOOLEAN, hb1 : BOOLEAN]

CapsNone ==
    [heartbeat |-> FALSE, version |-> FALSE, listCollections |-> FALSE,
     getCollection |-> FALSE, countCollection |-> FALSE, getItems |-> FALSE,
     query |-> FALSE, apiVersion |-> NULL]

\* A call that is not running.  While one runs, pc names the request it awaits,
\* path and url are that request's, and the other fields are the call's locals.
DcIdle == [pc |-> "idle", path |-> <<>>, url |-> <<>>, caps |-> CapsNone, first |-> ""]

TcIdle == [pc |-> "idle", path |-> <<>>, url |-> <<>>]

OpIdle == [pc |-> "idle", fn |-> "", path |-> <<>>, url |-> <<>>, schema |-> ""]

UrlIdle == [path |-> <<>>, ret |-> <<>>]

FetchIdle ==
    [pc |-> "idle", path |-> <<>>, schema |-> "", timeout |-> 0,
     url |-> <<>>, res |-> <<>>, out |-> <<>>]

\* No write operation called yet.  fn is the function, url the URL fetched,
\* res what fetch() settled to and out what the function settled to.
WriteIdle ==
    [pc |-> "idle", fn |-> "", url |-> <<>>, res |-> <<>>, out |-> <<>>]

\* No request built yet.  headers maps each header name to its value.
ReqIdle == [site |-> "", headers |-> [h \in {} |-> <<>>]]

\* getAllItems not running.  offset is the loop variable, all* the four
\* accumulators; requested lists the page requests made so far and pages the
\* pages received for them; ret and err are the value returned or the error
\* thrown (empty until then).
GaIdle ==
    [pc |-> "idle", totalCount |-> 0, offset |-> 0,
     allIds |-> <<>>, allDocs |-> <<>>, allMetas |-> <<>>, allEmbeddings |-> <<>>,
     requested |-> <<>>, pages |-> <<>>, ret |-> <<>>, err |-> <<>>]

\* No kMeans call yet.  points, k and maxIter are the arguments; centroids and
\* labels are the function's locals of those names, c and iter its two loop
\* counters; picked[j] is the index (from 1) of the input point copied into
\* seed j; ret is the value returned (empty until then).
KmIdle ==
    [pc |-> "idle", points |-> <<>>, k |-> 0, maxIter |-> 0,
     centroids |-> <<>>, picked |-> <<>>, c |-> 0, iter |-> 0,
     labels |-> <<>>, ret |-> <<>>]

\* No pcaProject call yet.  embeddings is the argument, pc1 and pc2 the two
\* vectors powerIteration returned, ret the value returned (empty until then);
\* data and points are the query result and the memo of VisualizeTab when the
\* call is the memo's, and called tells whether the memo called pcaProject.
PcaIdle ==
    [pc |-> "idle", embeddings |-> <<>>, pc1 |-> <<>>, pc2 |-> <<>>, ret |-> <<>>,
     data |-> <<>>, points |-> <<>>, called |-> FALSE]

\* The heatmap before it is mounted.  embeddings, ids and maxItems are the
\* props, sampleSize the state, validData and matrix the two memos.
HeatIdle ==
    [pc |-> "idle", embeddings |-> <<>>, ids |-> <<>>, sampleSize |-> 0,
     validData |-> <<>>, matrix |-> <<>>, maxItems |-> 0]

\* The connection settings of the runs of the whole client: nothing stored
\* (direct mode, default base URL).  The settings only shape the URLs, which
\* resolveUrl and chromaFetch are checked for under every setting.
ClientStorages == {[k \in {} |-> <<>>]}

\* A page load: the module's variables as chromaClient initialises them.
InitOver(storages, servers) ==
    /\ localStorage \in storages
    /\ detectedApiVersion = NULL
    /\ cachedCapabilities = <<>>
    /\ server \in servers
    /\ dc = DcIdle
    /\ tc = TcIdle
    /\ op = OpIdle
    /\ calls = 0
    /\ urlCall = UrlIdle
    /\ fetchCall = FetchIdle
    /\ req = ReqIdle
    /\ probeLog = <<>>
    /\ ga = GaIdle
    /\ km = KmIdle
    /\ pca = PcaIdle
    /\ heat = HeatIdle
    /\ wr = WriteIdle

Init == InitOver(ClientStorages, Servers)

\* One application of a function of the client, under any connection settings.
InitApply == InitOver(Storages, {[hb2 |-> TRUE, hb1 |-> FALSE]})

\* ---------------------------------------------------------------- resolveUrl applied

\* The paths resolveUrl is applied to: the client's own (all begin with "/")
\* and relative ones, which the function accepts as well.
UrlPaths ==
    {<<"/", "api", "/", "v2", "/", "heartbeat">>,
     <<"/", "api", "/", "v1", "/", "heartbeat">>,
     <<"/", "api", "/", "v1", "/", "collections">>,
     <<"/", "api", "/", "v2", "/", "tenants", "/", DEFAULT_TENANT,
       "/", "databases", "/", DEFAULT_DATABASE, "/", "collections">>,
     <<"/", "api", "/", "v1", "/", "collections", "/", "c1", "/", "count">>,
     <<"/">>,
     <<>>,
     <<"heartbeat">>,
     <<"api", "/", "v1", "/", "version">>}

ResolveUrlCall(path) ==
    /\ urlCall' = [path |-> path, ret |-> resolveUrl(path)]
    /\ UNCHANGED <<localStorage, detectedApiVersion, cachedCapabilities, server,
                   dc, tc, op, calls, fetchCall,
                   req, probeLog, ga, km, pca, heat, wr>>

NextUrl == \E path \in UrlPaths : ResolveUrlCall(path)

SpecUrl == InitApply /\ [][NextUrl]_vars

\* ---------------------------------------------------------------- chromaFetch applied

FetchPaths ==
    {<<"/", "api", "/", "v2", "/", "heartbeat">>,
     <<"/", "api", "/", "v1", "/", "collections">>}

Timeouts == {DEFAULT_TIMEOUT, 5000}

\* chromaFetch up to `await fetch(url, ...)`.
ChromaFetchCall(path, schema, timeout) ==
    /\ fetchCall.pc = "idle"
    /\ fetchCall' = [pc |-> "await", path |-> path, schema |-> schema,
                     timeout |-> timeout, url |-> resolveUrl(path),
                     res |-> <<>>, out |-> <<>>]
    /\ UNCHANGED <<localStorage, detectedApiVersion, cachedCapabilities, server,
                   dc, tc, op, calls, urlCall,
                   req, probeLog, ga, km, pca, heat, wr>>

\* fetch() settles to res; the rest of chromaFetch runs to its return or throw.
ChromaFetchSettle(res) ==
    /\ fetchCall.pc = "await"
    /\ fetchCall' = [fetchCall EXCEPT
                        !.pc = "idle",
                        !.res = <<res>>,
                        !.out = <<chromaFetch(res, fetchCall.schema, fetchCall.timeout)>>]
    /\ UNCHANGED <<localStorage, detectedApiVersion, cachedCapabilities, server,
                   dc, tc, op, calls, urlCall,
                   req, probeLog, ga, km, pca, heat, wr>>

NextFetch ==
    \/ \E path \in FetchPaths, schema \in Schemas, timeout \in Timeouts :
            ChromaFetchCall(path, schema, timeout)
    \/ \E res \in FetchResults : ChromaFetchSettle(res)

SpecFetch == InitApply /\ [][NextFetch]_vars

\* ---------------------------------------------------------------- requests built

\* The strings typed into the Connect form: a field left blank is "".
TokenInputs == {<<>>, <<"t", "k">>}

UsernameInputs == {<<>>, <<"u">>}

PasswordInputs == {<<>>, <<"p", "w">>}

\* What ConnectPage's onSubmit gives to setAuth for each auth type.
AuthSettings ==
    {<<<<"none">>, NoCredentials>>}
    \cup {<<<<"token">>, Credentials(<<t>>, <<>>, <<>>)>> : t \in TokenInputs}
    \cup {<<<<"basic">>, Credentials(<<>>, <<u>>, <<p>>)>> :
            u \in UsernameInputs, p \in PasswordInputs}
    \cup {<<<<"x-chroma-token">>, Credentials(<<t>>, <<>>, <<>>)>> : t \in TokenInputs}

\* setAuth(type, credentials)
setAuth(type, credentials) ==
    /\ localStorage' = (STORAGE_KEYS.AUTH_TYPE :> type)
                        @@ (STORAGE_KEYS.AUTH_CREDENTIALS :> JSONstringify(credentials))
                        @@ localStorage
    /\ req' = ReqIdle
    /\ UNCHANGED <<detectedApiVersion, cachedCapabilities, server,
                   dc, tc, op, calls, urlCall, fetchCall, probeLog, ga, km, pca, heat, wr>>

\* clearAuth()
clearAuth ==
    /\ localStorage' =
            [k \in DOMAIN localStorage
                    \ {STORAGE_KEYS.AUTH_TYPE, STORAGE_KEYS.AUTH_CREDENTIALS}
                |-> localStorage[k]]
    /\ req' = ReqIdle
    /\ UNCHANGED <<detectedApiVersion, cachedCapabilities, server,
                   dc, tc, op, calls, urlCall, fetchCall, probeLog, ga, km, pca, heat, wr>>

\* One of the client's places builds the headers of its request.
BuildRequest(site) ==
    /\ req' = [site |-> site, headers |-> RequestHeaders(site)]
    /\ UNCHANGED <<localStorage, detectedApiVersion, cachedCapabilities, server,
                   dc, tc, op, calls, urlCall, fetchCall, probeLog, ga, km, pca, heat, wr>>

NextAuth ==
    \/ \E s \in AuthSettings : setAuth(s[1], s[2])
    \/ clearAuth
    \/ \E site \in RequestSites : BuildRequest(site)

SpecAuth == InitApply /\ [][NextAuth]_vars

\* ---------------------------------------------------------------- getAllItems

\* const pageSize = 500
pageSize == 500

\* The collection on the server: record k has the id, the document, the
\* metadata and the embedding written k; NullEntry is a null in an array.
NullEntry == 0

\* The pages getItems returns, already validated by GetItemsResponseSchema:
\* ids is an array, each of documents, metadatas and embeddings an array of
\* nullable entries (<<array>>) or missing (<<>>).  A page is the server's
\* records from offset on; its shape says which fields the server left out.
PageShapes == {"all", "noDocuments", "sparse", "bare"}

PageOf(offset, n, shape) ==
    LET entries == [i \in 1..n |-> offset + i]
    IN  [ids |-> entries,
         documents |->
            IF shape \in {"noDocuments", "bare"} THEN <<>>
            ELSE IF shape = "sparse"
            THEN <<[i \in 1..n |-> IF i % 2 = 1 THEN NullEntry ELSE offset + i]>>
            ELSE <<entries>>,
         metadatas |-> IF shape = "bare" THEN <<>> ELSE <<entries>>,
         embeddings |-> IF shape = "bare" THEN <<>> ELSE <<entries>>]

Min(a, b) == IF a < b THEN a ELSE b

\* How many records a page may hold: none (the collection was emptied), the
\* records the count promised from offset on, or a full page.
PageLengths(offset, totalCount) ==
    {0, Min(pageSize, totalCount - offset), pageSize}

\* The errors getItems throws: those of chromaFetch with the items schema.
GetItemsErrors ==
    {chromaFetch(res, "GetItemsResponseSchema", DEFAULT_TIMEOUT).err[1] :
        res \in {Response(500, <<"Internal Server Error">>, "empty", FALSE),
                 Response(200, <<"OK">>, "itemsBad", FALSE),
                 Thrown("TypeError", <<"Failed to fetch">>),
                 Thrown("AbortError", <<"The operation was aborted.">>)}}

\* The counts getAllItems is called with (SettingsTab returns early on 0).
TotalCounts == {0, 1, 500, 501, 1200}

\* The body of the request getItems sends for one page.
PageRequest(offset) == [limit |-> pageSize, offset |-> offset]

\* The loop test with <= for <.
loopContinues_inclusive(offset, totalCount) == offset <= totalCount

\* for (...; offset < totalCount; ...)
loopContinues(offset, totalCount) == offset < totalCount

\* The loop without its update: offset stays where it is.
nextOffset_stuck(offset) == offset

\* for (...; ...; offset += pageSize)
nextOffset(offset) == offset + pageSize

\* allDocs.length > 0 ? allDocs : undefined
NonEmptyOrUndefined(all) == IF Len(all) > 0 THEN <<all>> ELSE <<>>

\* page.documents?.forEach((d) => allDocs.push(d))
PushEach(all, field) == IF field = <<>> THEN all ELSE all \o field[1]

\* The object getAllItems returns from its accumulators.
Batch(allIds, allDocs, allMetas, allEmbeddings) ==
    [ids |-> allIds,
     documents |-> NonEmptyOrUndefined(allDocs),
     metadatas |-> NonEmptyOrUndefined(allMetas),
     embeddings |-> NonEmptyOrUndefined(allEmbeddings)]

\* getAllItems(collectionId, totalCount) up to its first `await getItems(...)`,
\* or to its return when the loop body never runs.
getAllItems(totalCount) ==
    /\ ga.pc = "idle"
    /\ ga' = IF loopContinues(0, totalCount)
             THEN [GaIdle EXCEPT !.pc = "await", !.totalCount = totalCount,
                                 !.requested = <<PageRequest(0)>>]
             ELSE [GaIdle EXCEPT !.totalCount = totalCount,
                                 !.ret = <<Batch(<<>>, <<>>, <<>>, <<>>)>>]
    /\ UNCHANGED <<localStorage, detectedApiVersion, cachedCapabilities, server,
                   dc, tc, op, calls, urlCall, fetchCall, req, probeLog, km, pca, heat, wr>>

\* getItems returns a page: it is pushed onto the accumulators, offset moves
\* on, and the next page is requested or the batch is returned.
gaPage(n, shape) ==
    LET page == PageOf(ga.offset, n, shape)
        allIds == ga.allIds \o page.ids
        allDocs == PushEach(ga.allDocs, page.documents)
        allMetas == PushEach(ga.allMetas, page.metadatas)
        allEmbeddings == PushEach(ga.allEmbeddings, page.embeddings)
        offset == nextOffset(ga.offset)
    IN  /\ ga.pc = "await"
        /\ n \in PageLengths(ga.offset, ga.totalCount)
        /\ ga' = IF loopContinues(offset, ga.totalCount)
                 THEN [ga EXCEPT !.offset = offset,
                                 !.allIds = allIds, !.allDocs = allDocs,
                                 !.allMetas = allMetas,
                                 !.allEmbeddings = allEmbeddings,
                                 !.requested = Append(@, PageRequest(offset)),
                                 !.pages = Append(@, [n |-> n, shape |-> shape])]
                 ELSE [GaIdle EXCEPT
                                 !.totalCount = ga.totalCount,
                                 !.requested = ga.requested,
                                 !.pages = Append(ga.pages, [n |-> n, shape |-> shape]),
                                 !.ret = <<Batch(allIds, allDocs, allMetas,
                                                 allEmbeddings)>>]
        /\ UNCHANGED <<localStorage, detectedApiVersion, cachedCapabilities, server,
                       dc, tc, op, calls, urlCall, fetchCall, req, probeLog, km, pca, heat, wr>>

\* getItems that hands back what was gathered so far in place of its error.
gaFail_partial(err) ==
    /\ ga.pc = "await"
    /\ ga' = [GaIdle EXCEPT !.totalCount = ga.totalCount,
                            !.requested = ga.requested, !.pages = ga.pages,
                            !.ret = <<Batch(ga.allIds, ga.allDocs, ga.allMetas,
                                            ga.allEmbeddings)>>]
    /\ UNCHANGED <<localStorage, detectedApiVersion, cachedCapabilities, server,
                   dc, tc, op, calls, urlCall, fetchCall, req, probeLog, km, pca, heat, wr>>

\* getItems throws: nothing catches it, getAllItems throws the same error and
\* its accumulators are gone.
gaFail(err) ==
    /\ ga.pc = "await"
    /\ ga' = [GaIdle EXCEPT !.totalCount = ga.totalCount,
                            !.requested = ga.requested, !.pages = ga.pages,
                            !.err = <<err>>]
    /\ UNCHANGED <<localStorage, detectedApiVersion, cachedCapabilities, server,
                   dc, tc, op, calls, urlCall, fetchCall, req, probeLog, km, pca, heat, wr>>

NextAll ==
    \/ \E totalCount \in TotalCounts : getAllItems(totalCount)
    \/ \E n \in 0..pageSize, shape \in PageShapes : gaPage(n, shape)
    \/ \E err \in GetItemsErrors : gaFail(err)

\* One storage, one server: neither plays a part in getAllItems.
InitAll == InitOver({[k \in {} |-> <<>>]}, {[hb2 |-> TRUE, hb1 |-> FALSE]})

SpecAll == InitAll /\ [][NextAll]_vars

\* getItems settles, with a page or with an error.
gaSettle ==
    \/ \E n \in 0..pageSize, shape \in PageShapes : gaPage(n, shape)
    \/ \E err \in GetItemsErrors : gaFail(err)

\* getAllItems against a server that answers every page request.
SpecAllAnswered == InitAll /\ [][NextAll]_vars /\ WF_vars(gaSettle)

\* ---------------------------------------------------------------- kMeans

\* Points have whole coordinates that are multiples of MaxPoints!, so that
\* every mean of up to MaxPoints of them is a whole number and sumX / cnt is
\* exact (as it is in the doubles of the program for such inputs).
MaxPoints == 3

RECURSIVE Factorial(_)
Factorial(n) == IF n <= 1 THEN 1 ELSE n * Factorial(n - 1)

Coordinates == {0, Factorial(MaxPoints)}

\* Three points that are not on one line.
Points == {p \in [x : Coordinates, y : Coordinates] : p.x = 0 \/ p.y = 0}

PointLists == UNION {[1..n -> Points] : n \in 0..MaxPoints}

ClusterCounts == 0..3

IterationLimits == 0..2

\* Math.random() returns u / RandomDen for a u of RandomDraws: a number of
\* [0, 1), 0 included.
RandomDraws == 0..3

RandomDen == Cardinality(RandomDraws)

\* Math.floor(Math.random() * n), as an index from 1.
RandomIndex(u, n) == ((u * n) \div RandomDen) + 1

RECURSIVE SumTo(_, _)
SumTo(s, i) == IF i = 0 THEN 0 ELSE SumTo(s, i - 1) + s[i]

\* (p.x - cen.x) ** 2 + (p.y - cen.y) ** 2
SqDist(p, cen) ==
    (p.x - cen.x) * (p.x - cen.x) + (p.y - cen.y) * (p.y - cen.y)

\* dists: each point's squared distance to its nearest centroid so far.
SeedDists(points, centroids) ==
    [i \in 1..Len(points) |->
        LET ds == {SqDist(points[i], centroids[c]) : c \in 1..Len(centroids)}
        IN  CHOOSE d \in ds : \A e \in ds : d <= e]

\* let r = Math.random() * total; then the first i with (r -= dists[i]) <= 0,
\* that is with dists[0] + ... + dists[i] >= r; none when the loop ends without
\* a push.
Roulette(dists, u) ==
    LET total == SumTo(dists, Len(dists))
        hits  == {i \in 1..Len(dists) : SumTo(dists, i) * RandomDen >= u * total}
    IN  IF hits = {} THEN <<>> ELSE <<CHOOSE i \in hits : \A j \in hits : i <= j>>

seedLoopContinues_inclusive(c, k) == c <= k

\* for (let c = 1; c < k; c++)
seedLoopContinues(c, k) == c < k

\* The assignment of one point: the lowest index among the nearest of the
\* first k centroids (d < minD is strict), and 0 when the loop over c is empty.
Nearest(p, centroids, k) ==
    IF k <= 0 THEN 0
    ELSE CHOOSE c \in 0..(k - 1) :
            \A e \in 0..(k - 1) :
                /\ SqDist(p, centroids[c + 1]) <= SqDist(p, centroids[e + 1])
                /\ e < c => SqDist(p, centroids[e + 1]) > SqDist(p, centroids[c + 1])

updateCentroid_origin(old, sumX, sumY, cnt) ==
    IF cnt > 0 THEN [x |-> sumX \div cnt, y |-> sumY \div cnt]
    ELSE [x |-> 0, y |-> 0]

\* if (cnt > 0) centroids[c] = { x: sumX / cnt, y: sumY / cnt }
updateCentroid(old, sumX, sumY, cnt) ==
    IF cnt > 0 THEN [x |-> sumX \div cnt, y |-> sumY \div cnt] ELSE old

Members(labels, c) == {i \in 1..Len(labels) : labels[i] = c}

RECURSIVE SumOver(_, _)
SumOver(f, S) ==
    IF S = {} THEN 0
    ELSE LET i == CHOOSE j \in S : TRUE IN f[i] + SumOver(f, S \ {i})

\* The iteration loop's test, and the return when it fails.
kmLoop(rec) ==
    IF rec.iter < rec.maxIter THEN [rec EXCEPT !.pc = "iterate"]
    ELSE [rec EXCEPT !.pc = "done",
                     !.ret = <<[labels |-> rec.labels, centroids |-> rec.centroids]>>]

\* The seeding loop's test; after the loop, labels = new Array(n).fill(0).
kmSeedLoop(rec) ==
    IF seedLoopContinues(rec.c, rec.k) THEN [rec EXCEPT !.pc = "seed"]
    ELSE kmLoop([rec EXCEPT !.labels = [i \in 1..Len(rec.points) |-> 0]])

\* kMeans(points, k, maxIter) is called: the empty input returns at once,
\* any other gets its first seed.
kMeans(points, k, maxIter, u) ==
    /\ km.pc = "idle"
    /\ LET n == Len(points)
           called == [KmIdle EXCEPT !.points = points, !.k = k, !.maxIter = maxIter]
       IN  km' = IF n = 0
                 THEN [called EXCEPT !.pc = "done",
                                     !.ret = <<[labels |-> <<>>, centroids |-> <<>>]>>]
                 ELSE kmSeedLoop([called EXCEPT
                          !.centroids = <<points[RandomIndex(u, n)]>>,
                          !.picked = <<RandomIndex(u, n)>>,
                          !.c = 1])
    /\ UNCHANGED <<localStorage, detectedApiVersion, cachedCapabilities, server,
                   dc, tc, op, calls, urlCall, fetchCall, req, probeLog, ga,
                   pca, heat, wr>>

\* One pass of the seeding loop: the roulette with draw u, and the fallback
\* with draw u2 when it pushed nothing.
kmSeed(u, u2) ==
    /\ km.pc = "seed"
    /\ LET n     == Len(km.points)
           dists == SeedDists(km.points, km.centroids)
           hit   == Roulette(dists, u)
           i     == IF hit # <<>> THEN hit[1] ELSE RandomIndex(u2, n)
       IN  km' = kmSeedLoop([km EXCEPT !.centroids = Append(@, km.points[i]),
                                       !.picked = Append(@, i),
                                       !.c = @ + 1])
    /\ UNCHANGED <<localStorage, detectedApiVersion, cachedCapabilities, server,
                   dc, tc, op, calls, urlCall, fetchCall, req, probeLog, ga,
                   pca, heat, wr>>

\* One pass of the iteration loop: assign, update the first k centroids in
\* place, labels = newLabels, and break when nothing changed.
kmIterate ==
    /\ km.pc = "iterate"
    /\ LET n         == Len(km.points)
           newLabels == [i \in 1..n |-> Nearest(km.points[i], km.centroids, km.k)]
           xs        == [i \in 1..n |-> km.points[i].x]
           ys        == [i \in 1..n |-> km.points[i].y]
           updated   == [j \in 1..Len(km.centroids) |->
                            IF j <= km.k
                            THEN updateCentroid(km.centroids[j],
                                     SumOver(xs, Members(newLabels, j - 1)),
                                     SumOver(ys, Members(newLabels, j - 1)),
                                     Cardinality(Members(newLabels, j - 1)))
                            ELSE km.centroids[j]]
           changed   == \E j \in 1..Len(km.centroids) :
                            /\ j <= km.k
                            /\ Members(newLabels, j - 1) # {}
                            /\ updated[j] # km.centroids[j]
           next      == [km EXCEPT !.centroids = updated, !.labels = newLabels,
                                   !.iter = @ + 1]
       IN  km' = IF changed THEN kmLoop(next)
                 ELSE [next EXCEPT !.pc = "done",
                          !.ret = <<[labels |-> newLabels, centroids |-> updated]>>]
    /\ UNCHANGED <<localStorage, detectedApiVersion, cachedCapabilities, server,
                   dc, tc, op, calls, urlCall, fetchCall, req, probeLog, ga,
                   pca, heat, wr>>

NextCluster ==
    \/ \E points \in PointLists, k \in ClusterCounts, maxIter \in IterationLimits,
          u \in RandomDraws :
            kMeans(points, k, maxIter, u)
    \/ \E u \in RandomDraws, u2 \in RandomDraws : kmSeed(u, u2)
    \/ kmIterate

\* The charts compute on what they are given: no storage, no server.
InitCharts == InitOver({[k \in {} |-> <<>>]}, {[hb2 |-> TRUE, hb1 |-> FALSE]})

SpecCluster == InitCharts /\ [][NextCluster]_vars

\* ---------------------------------------------------------------- pcaProject

\* Vector components are whole multiples of MaxVectors!, so that the mean of
\* up to MaxVectors of them is a whole number and mean[j] /= n is exact.
MaxVectors == 3

Components == {0, Factorial(MaxVectors)}

Dimensions == {1, 2}

Vectors(dim) == [1..dim -> Components]

\* Lists of up to MaxVectors vectors of one dimension.
VectorLists ==
    UNION {[1..n -> Vectors(dim)] : n \in 0..MaxVectors, dim \in Dimensions}

\* vec.reduce((s, v, j) => s + v * component[j], 0)
Dot(vec, component) ==
    SumTo([j \in 1..Len(vec) |-> vec[j] * component[j]], Len(vec))

\* mean, then centered = embeddings.map(vec => vec.map((v, j) => v - mean[j]))
Centered(embeddings) ==
    LET n    == Len(embeddings)
        dim  == Len(embeddings[1])
        mean == [j \in 1..dim |->
                    SumTo([i \in 1..n |-> embeddings[i][j]], n) \div n]
    IN  [i \in 1..n |-> [j \in 1..Len(embeddings[i]) |-> embeddings[i][j] - mean[j]]]

projectOnto_reversed(centered, component) ==
    [i \in 1..Len(centered) |-> Dot(centered[Len(centered) + 1 - i], component)]

\* projectOnto: centered.map(vec => vec . component)
projectOnto(centered, component) ==
    [i \in 1..Len(centered) |-> Dot(centered[i], component)]

\* deflected = centered.map((vec, i) => vec.map((v, j) => v - proj1[i] * pc1[j]))
Deflate(centered, proj1, pc1) ==
    [i \in 1..Len(centered) |->
        [j \in 1..Len(centered[i]) |-> centered[i][j] - proj1[i] * pc1[j]]]

\* powerIteration(rows): a hundred rounds of multiply-and-normalise from a
\* Math.random() start.  Its value is a real vector of length dim that depends
\* on the draws; what is kept of it here: over rows that are all zero every
\* round gives newVec = 0 and norm = 0 || 1, so the result is the zero vector;
\* over any other rows it is some unit vector, taken from those along an axis.
powerIteration(rows, dim) ==
    IF \A i \in 1..Len(rows) : \A j \in 1..Len(rows[i]) : rows[i][j] = 0
    THEN {[j \in 1..dim |-> 0]}
    ELSE {v \in [1..dim -> {-1, 0, 1}] :
             SumTo([j \in 1..dim |-> v[j] * v[j]], dim) = 1}

\* pcaProject(embeddings), where powerIteration returned pc1 and then pc2.
pcaProject(embeddings, pc1, pc2) ==
    IF Len(embeddings) = 0 THEN <<>>
    ELSE LET centered == Centered(embeddings)
             proj1    == projectOnto(centered, pc1)
             proj2    == projectOnto(centered, pc2)
         IN  [i \in 1..Len(proj1) |-> [x |-> proj1[i], y |-> proj2[i]]]

\* The results powerIteration can return, in the order pcaProject calls it.
FirstComponents(embeddings) ==
    IF Len(embeddings) = 0 THEN {<<>>}
    ELSE powerIteration(Centered(embeddings), Len(embeddings[1]))

SecondComponents(embeddings, pc1) ==
    IF Len(embeddings) = 0 THEN {<<>>}
    ELSE LET centered == Centered(embeddings)
         IN  powerIteration(Deflate(centered, projectOnto(centered, pc1), pc1),
                            Len(embeddings[1]))

\* pcaProject applied to a list of vectors.
PcaProjectCall(embeddings) ==
    /\ pca.pc = "idle"
    /\ \E pc1 \in FirstComponents(embeddings) :
       \E pc2 \in SecondComponents(embeddings, pc1) :
            pca' = [PcaIdle EXCEPT !.pc = "done", !.embeddings = embeddings,
                                   !.pc1 = pc1, !.pc2 = pc2,
                                   !.ret = <<pcaProject(embeddings, pc1, pc2)>>,
                                   !.called = TRUE]
    /\ UNCHANGED <<localStorage, detectedApiVersion, cachedCapabilities, server,
                   dc, tc, op, calls, urlCall, fetchCall, req, probeLog, ga,
                   km, heat, wr>>

\* The ids of a query result of n records: "id1", "id2", ...
ItemIds(n) == [i \in 1..n |-> <<"id", i>>]

\* A record's embedding as the server gives it: null, the empty vector, or a
\* vector (of one component here).
EmbeddingEntries == {<<>>, << <<>> >>} \cup {<<v>> : v \in Vectors(1)}

\* The query result of VisualizeTab: undefined before it loads, then ids and
\* embeddings (null when the server leaves them out).
QueryResults ==
    {<<>>}
    \cup {<<[ids |-> ItemIds(n), embeddings |-> <<>>]>> : n \in 0..MaxVectors}
    \cup UNION {{<<[ids |-> ItemIds(n), embeddings |-> <<e>>]>> :
                    e \in [1..n -> EmbeddingEntries]} : n \in 0..MaxVectors}

\* validIndices: the indices i with emb && emb.length > 0, in order.
RECURSIVE ValidIndices(_, _)
ValidIndices(embeddings, i) ==
    IF i > Len(embeddings) THEN <<>>
    ELSE (IF embeddings[i] # <<>> /\ Len(embeddings[i][1]) > 0 THEN <<i>> ELSE <<>>)
            \o ValidIndices(embeddings, i + 1)

\* The points memo of VisualizeTab.
VisualizePoints(data) ==
    /\ pca.pc = "idle"
    /\ IF data = <<>> \/ data[1].embeddings = <<>>
       THEN pca' = [PcaIdle EXCEPT !.pc = "done", !.data = data]
       ELSE LET embeddings      == data[1].embeddings[1]
                validIndices    == ValidIndices(embeddings, 1)
                validEmbeddings == [r \in 1..Len(validIndices) |->
                                       embeddings[validIndices[r]][1]]
            IN  IF Len(validEmbeddings) = 0
                THEN pca' = [PcaIdle EXCEPT !.pc = "done", !.data = data]
                ELSE \E pc1 \in FirstComponents(validEmbeddings) :
                     \E pc2 \in SecondComponents(validEmbeddings, pc1) :
                        LET projected == pcaProject(validEmbeddings, pc1, pc2)
                        IN  pca' = [PcaIdle EXCEPT
                                !.pc = "done", !.data = data, !.called = TRUE,
                                !.embeddings = validEmbeddings,
                                !.pc1 = pc1, !.pc2 = pc2,
                                !.ret = <<projected>>,
                                !.points = [idx \in 1..Len(projected) |->
                                    [id |-> data[1].ids[validIndices[idx]],
                                     x |-> projected[idx].x,
                                     y |-> projected[idx].y]]]
    /\ UNCHANGED <<localStorage, detectedApiVersion, cachedCapabilities, server,
                   dc, tc, op, calls, urlCall, fetchCall, req, probeLog, ga,
                   km, heat, wr>>

NextProject ==
    \/ \E embeddings \in VectorLists : PcaProjectCall(embeddings)
    \/ \E data \in QueryResults : VisualizePoints(data)

SpecProject == InitCharts /\ [][NextProject]_vars

\* ---------------------------------------------------------------- floating point

\* The numbers of cosineSimilarity are binary floating-point numbers, rounded
\* to nearest (ties to even) after every operation.  A number is s * m * 2^e
\* with a sign s, and m = 0 or m of exactly Precision bits.  Precision is 53 in
\* the program; the arithmetic here is the same with fewer bits, so that the
\* products stay within the whole numbers TLC can represent.
Precision == 13

Zero == [s |-> 1, m |-> 0, e |-> 0]

RECURSIVE BitLength(_)
BitLength(m) == IF m = 0 THEN 0 ELSE 1 + BitLength(m \div 2)

\* (M + a little more when sticky) * 2^e, rounded to Precision bits.
RoundToPrecision(s, M, sticky, e) ==
    LET sh == BitLength(M) - Precision
    IN  IF M = 0 THEN Zero
        ELSE IF sh <= 0 THEN [s |-> s, m |-> M * 2^(0 - sh), e |-> e + sh]
        ELSE LET q    == M \div 2^sh
                 rem  == M % 2^sh
                 half == 2^(sh - 1)
                 up   == rem > half \/ (rem = half /\ (sticky \/ q % 2 = 1))
                 m1   == IF up THEN q + 1 ELSE q
             IN  IF m1 = 2^Precision
                 THEN [s |-> s, m |-> 2^(Precision - 1), e |-> e + sh + 1]
                 ELSE [s |-> s, m |-> m1, e |-> e + sh]

Abs(n) == IF n < 0 THEN 0 - n ELSE n

Sign(n) == IF n < 0 THEN 0 - 1 ELSE 1

\* A whole number as a floating-point number (exact for those used here).
FromInt(n) == RoundToPrecision(Sign(n), Abs(n), FALSE, 0)

One == FromInt(1)

\* The largest s in lo..hi with s * s <= n.
RECURSIVE IsqrtIn(_, _, _)
IsqrtIn(n, lo, hi) ==
    IF lo = hi THEN lo
    ELSE LET mid == (lo + hi + 1) \div 2
         IN  IF mid * mid <= n THEN IsqrtIn(n, mid, hi) ELSE IsqrtIn(n, lo, mid - 1)

\* The t with n * 4^t in [2^(2 * Precision), 2^(2 * Precision + 2)).
RECURSIVE SqrtScale(_, _)
SqrtScale(n, t) ==
    IF n * 4^t >= 2^(2 * Precision) THEN t ELSE SqrtScale(n, t + 1)

\* Math.sqrt of a whole number n >= 0, correctly rounded.
Sqrt(n) ==
    IF n = 0 THEN Zero
    ELSE LET t  == SqrtScale(n, 0)
             N4 == n * 4^t
             r  == IsqrtIn(N4, 0, 2^(Precision + 1))
         IN  RoundToPrecision(1, r, r * r # N4, 0 - t)

\* a * b
Mul(a, b) == RoundToPrecision(a.s * b.s, a.m * b.m, FALSE, a.e + b.e)

\* n / d for a whole number n and a floating-point d # 0
Div(n, d) ==
    IF n = 0 THEN Zero
    ELSE LET a == FromInt(Abs(n))
             M == a.m * 2^(Precision + 1)
         IN  RoundToPrecision(Sign(n) * d.s, M \div d.m, M % d.m # 0,
                              a.e - d.e - (Precision + 1))

\* -1 <= f <= 1
InUnitRange(f) ==
    \/ f.m = 0
    \/ f.e < 0 - (Precision - 1)
    \/ f.e = 0 - (Precision - 1) /\ f.m = 2^(Precision - 1)

\* ---------------------------------------------------------------- SimilarityHeatmap

\* cosineSimilarity(a, b), for a and b of one length with small whole
\* components: dot, magA and magB are then exact, and the square roots, their
\* product and the quotient are each rounded.
cosineSimilarity(a, b) ==
    LET dot   == SumTo([i \in 1..Len(a) |-> a[i] * b[i]], Len(a))
        magA  == SumTo([i \in 1..Len(a) |-> a[i] * a[i]], Len(a))
        magB  == SumTo([i \in 1..Len(a) |-> b[i] * b[i]], Len(a))
        denom == Mul(Sqrt(magA), Sqrt(magB))
    IN  IF denom.m = 0 THEN Zero ELSE Div(dot, denom)

MaxRecords == 6

HeatVectors == {<<0, 0, 0>>, <<1, 1, 1>>, <<1, 0, 0 - 1>>}

\* An embedding of the embeddings prop: null or a vector.
HeatEntries == {<<>>} \cup {<<v>> : v \in HeatVectors}

HeatEmbeddings == UNION {[1..n -> HeatEntries] : n \in 0..MaxRecords}

\* The maxItems prop: a cap below the number of records, and the one
\* VisualizeTab passes.
MaxItemsProps == {2, 50}

\* validData: the first sampleSize embeddings that are not null, with their ids.
RECURSIVE ValidData(_, _, _, _)
ValidData(embeddings, ids, sampleSize, i) ==
    IF i > Len(embeddings) \/ sampleSize <= 0 THEN <<>>
    ELSE IF embeddings[i] # <<>>
         THEN <<[id  |-> IF i <= Len(ids) THEN ids[i] ELSE <<"item-", i - 1>>,
                 emb |-> embeddings[i][1]]>>
                 \o ValidData(embeddings, ids, sampleSize - 1, i + 1)
         ELSE ValidData(embeddings, ids, sampleSize, i + 1)

\* matrix: 1 on the diagonal, cosineSimilarity written to both cells of a pair.
Matrix(validData) ==
    [i \in 1..Len(validData) |->
        [j \in 1..Len(validData) |->
            IF i = j THEN One
            ELSE IF i < j THEN cosineSimilarity(validData[i].emb, validData[j].emb)
            ELSE cosineSimilarity(validData[j].emb, validData[i].emb)]]

\* The two memos, for the props and the state given.
HeatRender(embeddings, ids, maxItems, sampleSize) ==
    LET validData == ValidData(embeddings, ids, sampleSize, 1)
    IN  [pc |-> "shown", embeddings |-> embeddings, ids |-> ids,
         maxItems |-> maxItems, sampleSize |-> sampleSize,
         validData |-> validData, matrix |-> Matrix(validData)]

\* The component is mounted: sampleSize starts at Math.min(maxItems, 40).
SimilarityHeatmap(embeddings, maxItems) ==
    /\ heat.pc = "idle"
    /\ heat' = HeatRender(embeddings, ItemIds(Len(embeddings)), maxItems,
                          Min(maxItems, 40))
    /\ UNCHANGED <<localStorage, detectedApiVersion, cachedCapabilities, server,
                   dc, tc, op, calls, urlCall, fetchCall, req, probeLog, ga,
                   km, pca, wr>>

\* The slider (shown once there are two items; from 5 to
\* Math.min(maxItems, embeddings.filter(Boolean).length)) is moved to v.
setSampleSize(v) ==
    /\ heat.pc = "shown"
    /\ Len(heat.validData) >= 2
    /\ v >= 5
    /\ v <= Min(heat.maxItems,
                Cardinality({i \in 1..Len(heat.embeddings) : heat.embeddings[i] # <<>>}))
    /\ heat' = HeatRender(heat.embeddings, heat.ids, heat.maxItems, v)
    /\ UNCHANGED <<localStorage, detectedApiVersion, cachedCapabilities, server,
                   dc, tc, op, calls, urlCall, fetchCall, req, probeLog, ga,
                   km, pca, wr>>

NextHeat ==
    \/ \E embeddings \in HeatEmbeddings, maxItems \in MaxItemsProps :
            SimilarityHeatmap(embeddings, maxItems)
    \/ \E v \in 0..MaxRecords : setSampleSize(v)

SpecHeat == InitCharts /\ [][NextHeat]_vars

\* ---------------------------------------------------------------- the server

Seg(s) == <<"/", s>>

HeartbeatV2 == <<"/", "api", "/", "v2", "/", "heartbeat">>

HeartbeatV1 == <<"/", "api", "/", "v1", "/", "heartbeat">>

\* The settlements the runs of the whole client draw from: one of each kind
\* that a caller of probeUrl or chromaFetch tells apart.
ServerAnswers ==
    {Response(200, <<"OK">>, b, FALSE) :
        b \in {"hb", "ver", "colls0", "colls1", "collsBad", "html"}}
    \cup {Response(404, <<"Not Found">>, "html", FALSE),
          Thrown("TypeError", <<"Failed to fetch">>),
          Thrown("AbortError", <<"The operation was aborted.">>)}

\* What fetch() of `path` may settle to.  A heartbeat route answers as the
\* server's state says; any other request may settle to anything.
Answers(path) ==
    IF path \in {HeartbeatV2, HeartbeatV1}
    THEN LET up == IF path = HeartbeatV2 THEN server.hb2 ELSE server.hb1
         IN  IF up THEN {Response(200, <<"OK">>, "hb", FALSE)}
             ELSE {r \in ServerAnswers : ~ResOk(r)}
    ELSE ServerAnswers

\* The server is upgraded, downgraded, stopped or started.
ServerChange ==
    /\ server' \in Servers \ {server}
    /\ UNCHANGED <<localStorage, detectedApiVersion, cachedCapabilities,
                   dc, tc, op, calls, urlCall, fetchCall,
                   req, probeLog, ga, km, pca, heat, wr>>

\* ---------------------------------------------------------------- probeUrl

\* probeUrl taking every response for an answer (`return true` for `return res.ok`).
probeUrl_anyResponse(res) == res.kind = "response"

\* probeUrl(path) once its fetch() has settled to res: res.ok, false on a throw.
probeUrl(res) == IF res.kind = "throw" THEN FALSE ELSE ResOk(res)

\* ---------------------------------------------------------------- collection operations

\* The pages make at most MaxCalls client calls in one run of the model.
MaxCalls == 2

CollectionNames == {<<"my", " ", "docs">>}

CollectionIds == {"c1"}

\* The request a collection operation builds before it awaits fetch().
OpCall(fn, path, schema) ==
    /\ op.pc = "idle"
    /\ calls < MaxCalls
    /\ calls' = calls + 1
    /\ op' = [pc |-> "await", fn |-> fn, path |-> path, url |-> resolveUrl(path),
              schema |-> schema]
    /\ UNCHANGED <<localStorage, detectedApiVersion, cachedCapabilities, server,
                   dc, tc, urlCall, fetchCall,
                   req, probeLog, ga, km, pca, heat, wr>>

listCollections ==
    OpCall("listCollections", apiPrefix \o Seg("collections"), "CollectionListSchema")

getCollection(name) ==
    OpCall("getCollection",
           apiPrefix \o Seg("collections") \o <<"/">> \o encodeURIComponent(name),
           "CollectionSchema")

getCollectionCount(collectionId) ==
    OpCall("getCollectionCount",
           apiPrefix \o Seg("collections") \o Seg(collectionId) \o Seg("count"),
           "CountSchema")

getItems(collectionId) ==
    OpCall("getItems",
           apiPrefix \o Seg("collections") \o Seg(collectionId) \o Seg("get"),
           "GetItemsResponseSchema")

queryCollection(collectionId) ==
    OpCall("queryCollection",
           apiPrefix \o Seg("collections") \o Seg(collectionId) \o Seg("query"),
           "QueryResponseSchema")

\* deleteCollection, addItems and deleteItems call fetch() themselves.
deleteCollection(name) ==
    OpCall("deleteCollection",
           apiPrefix \o Seg("collections") \o <<"/">> \o encodeURIComponent(name),
           "")

addItems(collectionId) ==
    OpCall("addItems",
           apiPrefix \o Seg("collections") \o Seg(collectionId) \o Seg("add"),
           "")

deleteItems(collectionId) ==
    OpCall("deleteItems",
           apiPrefix \o Seg("collections") \o Seg(collectionId) \o Seg("delete"),
           "")

\* The settlement of an operation that also drops the cached capabilities.
OpSettle_dropsCache(res) ==
    /\ op.pc = "await"
    /\ res \in Answers(op.path)
    /\ op' = OpIdle
    /\ cachedCapabilities' = <<>>
    /\ UNCHANGED <<localStorage, detectedApiVersion, server,
                   dc, tc, calls, urlCall, fetchCall, req, probeLog, ga, km, pca, heat, wr>>

\* The operation's fetch() settles; its result or error goes to the caller.
OpSettle(res) ==
    /\ op.pc = "await"
    /\ res \in Answers(op.path)
    /\ op' = OpIdle
    /\ UNCHANGED <<localStorage, detectedApiVersion, cachedCapabilities, server,
                   dc, tc, calls, urlCall, fetchCall,
                   req, probeLog, ga, km, pca, heat, wr>>

\* ---------------------------------------------------------------- write operations applied

\* deleteCollection, addItems and deleteItems call fetch() themselves, outside
\* chromaFetch.
WriteOperations == {"deleteCollection", "addItems", "deleteItems"}

WritePath(fn, name, collectionId) ==
    IF fn = "deleteCollection"
    THEN apiPrefix \o Seg("collections") \o <<"/">> \o encodeURIComponent(name)
    ELSE IF fn = "addItems"
    THEN apiPrefix \o Seg("collections") \o Seg(collectionId) \o Seg("add")
    ELSE apiPrefix \o Seg("collections") \o Seg(collectionId) \o Seg("delete")

\* The message prefix of the error each throws on a response that is not ok.
WriteFailed(fn) ==
    IF fn = "deleteCollection" THEN "Delete failed: "
    ELSE IF fn = "addItems" THEN "Add items failed: "
    ELSE "Delete items failed: "

\* The function once fetch() has settled to res: a rejection of fetch() goes
\* to the caller as it is (deleteCollection catches it and throws it again),
\* a response that is not ok becomes a ChromaError with its status.
writeOperation(fn, res) ==
    IF res.kind = "throw"
    THEN Throw(JsError(res.name, res.message), <<>>)
    ELSE IF ~ResOk(res)
    THEN LET text == IF res.textFails THEN <<>> ELSE BodyText(res.body)
         IN  Throw(ChromaError(<<WriteFailed(fn), ToString(res.status), " ">> \o text,
                               <<res.status>>, FALSE),
                   <<"text">>)
    ELSE Return("", <<>>)

\* The function up to `await fetch(url, ...)`.
WriteCall(fn, name, collectionId) ==
    /\ wr.pc = "idle"
    /\ wr' = [WriteIdle EXCEPT !.pc = "await", !.fn = fn,
                               !.url = resolveUrl(WritePath(fn, name, collectionId))]
    /\ UNCHANGED <<localStorage, detectedApiVersion, cachedCapabilities, server,
                   dc, tc, op, calls, urlCall, fetchCall, req, probeLog, ga,
                   km, pca, heat>>

\* fetch() settles to res; the rest of the function runs.
WriteSettle(res) ==
    /\ wr.pc = "await"
    /\ wr' = [wr EXCEPT !.pc = "idle", !.res = <<res>>,
                        !.out = <<writeOperation(wr.fn, res)>>]
    /\ UNCHANGED <<localStorage, detectedApiVersion, cachedCapabilities, server,
                   dc, tc, op, calls, urlCall, fetchCall, req, probeLog, ga,
                   km, pca, heat>>

NextWrite ==
    \/ \E fn \in WriteOperations, name \in CollectionNames, collectionId \in CollectionIds :
            WriteCall(fn, name, collectionId)
    \/ \E res \in FetchResults : WriteSettle(res)

SpecWrite == InitApply /\ [][NextWrite]_vars

\* ---------------------------------------------------------------- testConnection

\* testConnection() up to `await probeUrl("/api/v2/heartbeat")`.
testConnection ==
    /\ tc.pc = "idle"
    /\ calls < MaxCalls
    /\ calls' = calls + 1
    /\ tc' = [pc |-> "v2hb", path |-> HeartbeatV2, url |-> resolveUrl(HeartbeatV2)]
    /\ UNCHANGED <<localStorage, detectedApiVersion, cachedCapabilities, server,
                   dc, op, urlCall, fetchCall,
                   req, probeLog, ga, km, pca, heat, wr>>

\* The probe settles: the version is written, the heartbeat is requested.
tcDetect(res) ==
    /\ tc.pc = "v2hb"
    /\ res \in Answers(tc.path)
    /\ detectedApiVersion' = IF probeUrl(res) THEN "v2" ELSE "v1"
    /\ tc' = [pc |-> "heartbeat", path |-> apiBase' \o Seg("heartbeat"),
              url |-> resolveUrl(apiBase' \o Seg("heartbeat"))]
    /\ UNCHANGED <<localStorage, cachedCapabilities, server,
                   dc, op, calls, urlCall, fetchCall,
                   req, probeLog, ga, km, pca, heat, wr>>

\* chromaFetch(heartbeat) settles: on an error testConnection rethrows it,
\* otherwise the version is requested.
tcHeartbeat(res) ==
    /\ tc.pc = "heartbeat"
    /\ res \in Answers(tc.path)
    /\ tc' = IF chromaFetch(res, "HeartbeatSchema", DEFAULT_TIMEOUT).kind = "throw"
             THEN TcIdle
             ELSE [pc |-> "version", path |-> apiBase \o Seg("version"),
                   url |-> resolveUrl(apiBase \o Seg("version"))]
    /\ UNCHANGED <<localStorage, detectedApiVersion, cachedCapabilities, server,
                   dc, op, calls, urlCall, fetchCall,
                   req, probeLog, ga, km, pca, heat, wr>>

\* chromaFetch(version) settles: testConnection returns or rethrows.
tcVersion(res) ==
    /\ tc.pc = "version"
    /\ res \in Answers(tc.path)
    /\ tc' = TcIdle
    /\ UNCHANGED <<localStorage, detectedApiVersion, cachedCapabilities, server,
                   dc, op, calls, urlCall, fetchCall,
                   req, probeLog, ga, km, pca, heat, wr>>

\* ---------------------------------------------------------------- detectCapabilities

\* dc awaiting probeUrl(path) at pc, with its locals.
DcProbe(pc, path, caps, first) ==
    [pc |-> pc, path |-> path, url |-> resolveUrl(path), caps |-> caps,
     first |-> first]

\* detectCapabilities() up to `await probeUrl("/api/v2/heartbeat")`.
detectCapabilities ==
    /\ dc.pc = "idle"
    /\ calls < MaxCalls
    /\ calls' = calls + 1
    /\ probeLog' = <<>>
    /\ dc' = DcProbe("v2hb", HeartbeatV2, CapsNone, "")
    /\ UNCHANGED <<localStorage, detectedApiVersion, cachedCapabilities, server,
                   tc, op, urlCall, fetchCall,
                   req, ga, km, pca, heat, wr>>

\* The v2 probe settles: v2 is written and the capability probes begin, or the
\* v1 heartbeat is probed.
dcProbeV2(res) ==
    /\ dc.pc = "v2hb"
    /\ res \in Answers(dc.path)
    /\ detectedApiVersion' = IF probeUrl(res) THEN "v2" ELSE detectedApiVersion
    /\ dc' = IF probeUrl(res)
             THEN DcProbe("heartbeat", apiBase' \o Seg("heartbeat"), CapsNone, "")
             ELSE DcProbe("v1hb", HeartbeatV1, CapsNone, "")
    /\ UNCHANGED <<localStorage, cachedCapabilities, server,
                   tc, op, calls, urlCall, fetchCall,
                   req, ga, km, pca, heat, wr>>

\* The v1 probe settles: detectedApiVersion = v1ok ? "v1" : "v2".
dcProbeV1(res) ==
    /\ dc.pc = "v1hb"
    /\ res \in Answers(dc.path)
    /\ detectedApiVersion' = IF probeUrl(res) THEN "v1" ELSE "v2"
    /\ dc' = DcProbe("heartbeat", apiBase' \o Seg("heartbeat"), CapsNone, "")
    /\ UNCHANGED <<localStorage, cachedCapabilities, server,
                   tc, op, calls, urlCall, fetchCall,
                   req, ga, km, pca, heat, wr>>

\* caps.heartbeat is known; the version route is probed.
dcHeartbeat(res) ==
    /\ dc.pc = "heartbeat"
    /\ res \in Answers(dc.path)
    /\ dc' = DcProbe("version", apiBase \o Seg("version"),
                     [dc.caps EXCEPT !.heartbeat = probeUrl(res)], "")
    /\ UNCHANGED <<localStorage, detectedApiVersion, cachedCapabilities, server,
                   tc, op, calls, urlCall, fetchCall,
                   req, ga, km, pca, heat, wr>>

\* caps.version is known; the collection list route is probed.
dcVersion(res) ==
    /\ dc.pc = "version"
    /\ res \in Answers(dc.path)
    /\ dc' = DcProbe("listCollections", apiPrefix \o Seg("collections"),
                     [dc.caps EXCEPT !.version = probeUrl(res)], "")
    /\ UNCHANGED <<localStorage, detectedApiVersion, cachedCapabilities, server,
                   tc, op, calls, urlCall, fetchCall,
                   req, ga, km, pca, heat, wr>>

\* The caps literal is complete (apiVersion is read now).  If the list route
\* answered, listCollections() is called; otherwise caps is cached and returned.
dcListCollections(res) ==
    LET caps == [dc.caps EXCEPT !.listCollections = probeUrl(res),
                                !.apiVersion = detectedApiVersion]
    IN  /\ dc.pc = "listCollections"
        /\ res \in Answers(dc.path)
        /\ IF caps.listCollections
           THEN /\ dc' = DcProbe("fetchCollections", apiPrefix \o Seg("collections"),
                                 caps, "")
                /\ UNCHANGED cachedCapabilities
           ELSE /\ dc' = DcIdle
                /\ cachedCapabilities' = <<caps>>
        /\ UNCHANGED <<localStorage, detectedApiVersion, server,
                       tc, op, calls, urlCall, fetchCall,
                   req, ga, km, pca, heat, wr>>

\* The else branch leaving the four flags as they are.
noCollections_unchanged(caps) == caps

\* The else branch of `if (collections.length > 0)`: no collection to probe,
\* the four item capabilities are set to true.
noCollections(caps) ==
    [caps EXCEPT !.getCollection = TRUE, !.countCollection = TRUE,
                 !.getItems = TRUE, !.query = TRUE]

\* listCollections() settles.  An error is swallowed; an empty list sets the four
\* item capabilities; otherwise the first collection is probed.
dcFetchCollections(res) ==
    LET out == chromaFetch(res, "CollectionListSchema", DEFAULT_TIMEOUT)
        collections == BodyJson(out.value).a
    IN  /\ dc.pc = "fetchCollections"
        /\ res \in Answers(dc.path)
        /\ IF out.kind = "throw"
           THEN /\ dc' = DcIdle
                /\ cachedCapabilities' = <<dc.caps>>
           ELSE IF Len(collections) > 0
           THEN /\ dc' = DcProbe("getCollection",
                                 apiPrefix \o Seg("collections")
                                    \o Seg(collections[1].o["id"].s),
                                 dc.caps, collections[1].o["id"].s)
                /\ UNCHANGED cachedCapabilities
           ELSE /\ dc' = DcIdle
                /\ cachedCapabilities' = <<noCollections(dc.caps)>>
        /\ UNCHANGED <<localStorage, detectedApiVersion, server,
                       tc, op, calls, urlCall, fetchCall,
                   req, ga, km, pca, heat, wr>>

\* caps.getCollection is known; the count route of the collection is probed.
dcGetCollection(res) ==
    /\ dc.pc = "getCollection"
    /\ res \in Answers(dc.path)
    /\ dc' = DcProbe("countCollection",
                     apiPrefix \o Seg("collections") \o Seg(dc.first) \o Seg("count"),
                     [dc.caps EXCEPT !.getCollection = probeUrl(res)], dc.first)
    /\ UNCHANGED <<localStorage, detectedApiVersion, cachedCapabilities, server,
                   tc, op, calls, urlCall, fetchCall,
                   req, ga, km, pca, heat, wr>>

\* caps.countCollection is known; caps is cached and returned.
dcCountCollection(res) ==
    /\ dc.pc = "countCollection"
    /\ res \in Answers(dc.path)
    /\ cachedCapabilities' =
            <<[dc.caps EXCEPT !.countCollection = probeUrl(res),
                              !.getItems = TRUE, !.query = TRUE]>>
    /\ dc' = DcIdle
    /\ UNCHANGED <<localStorage, detectedApiVersion, server,
                   tc, op, calls, urlCall, fetchCall,
                   req, ga, km, pca, heat, wr>>

\* ---------------------------------------------------------------- the client

\* The calls the pages make, in any interleaving.
Calls ==
    \/ testConnection
    \/ detectCapabilities
    \/ listCollections
    \/ \E name \in CollectionNames : getCollection(name)
    \/ \E id \in CollectionIds : getCollectionCount(id)
    \/ \E id \in CollectionIds : getItems(id)
    \/ \E id \in CollectionIds : queryCollection(id)
    \/ \E name \in CollectionNames : deleteCollection(name)
    \/ \E id \in CollectionIds : addItems(id)
    \/ \E id \in CollectionIds : deleteItems(id)

\* A request of detectCapabilities settles.  (probeLog is the observer's: the
\* steps above leave it to whoever composes them.)
dcSettle(res) ==
    \/ dcProbeV2(res)
    \/ dcProbeV1(res)
    \/ dcHeartbeat(res)
    \/ dcVersion(res)
    \/ dcListCollections(res)
    \/ dcFetchCollections(res)
    \/ dcGetCollection(res)
    \/ dcCountCollection(res)

\* The settlements of the requests in flight.
Settles ==
    \E res \in ServerAnswers :
        \/ OpSettle(res)
        \/ tcDetect(res)
        \/ tcHeartbeat(res)
        \/ tcVersion(res)
        \/ dcSettle(res) /\ UNCHANGED probeLog

Next == Calls \/ Settles \/ ServerChange

Spec == Init /\ [][Next]_vars

\* The same client against a server whose heartbeat answers never change.
NextFixed == Calls \/ Settles

SpecFixed == Init /\ [][NextFixed]_vars

\* ---------------------------------------------------------------- detection observed

\* One request of a detection as it settled: the await it was made at, its
\* path, whether it answered (res.ok for a probe, no error for listCollections())
\* and the number of collections listCollections() returned.
Probed(at, path, ok, n) == [at |-> at, path |-> path, ok |-> ok, n |-> n]

\* What the request awaited at `at` makes of the settlement res.
Observe(at, path, res) ==
    LET out == chromaFetch(res, "CollectionListSchema", DEFAULT_TIMEOUT)
    IN  IF at # "fetchCollections" THEN Probed(at, path, ResOk(res), 0)
        ELSE IF out.kind = "throw" THEN Probed(at, path, FALSE, 0)
        ELSE Probed(at, path, TRUE, Len(BodyJson(out.value).a))

\* detectCapabilities alone, against a server that may change, with every
\* request and its outcome written to probeLog (emptied when a call starts).
dcObserved(res) ==
    /\ dcSettle(res)
    /\ probeLog' = Append(probeLog, Observe(dc.pc, dc.path, res))

NextDetect ==
    \/ detectCapabilities
    \/ \E res \in ServerAnswers : dcObserved(res)
    \/ ServerChange

SpecDetect == Init /\ [][NextDetect]_vars

\* ---------------------------------------------------------------- the server page

\* ServerPage mounts: its queries call testConnection and detectCapabilities
\* together, and their awaits interleave.  The server does not change, and the
\* requests of the detection are written to probeLog as they settle.
NextRace ==
    \/ testConnection
    \/ detectCapabilities
    \/ \E res \in ServerAnswers :
        \/ tcDetect(res)
        \/ tcHeartbeat(res)
        \/ tcVersion(res)
        \/ dcObserved(res)

SpecRace == Init /\ [][NextRace]_vars

\* ---------------------------------------------------------------- the dev proxy

\* vite.config.ts: chromaTarget, when VITE_DEV_CHROMA_URL is not set.
chromaTarget == <<"http://localhost:8000">>

proxyRewrite_keep(path) == path

\* rewrite: (path) => path.replace(/^\/api/, "")
proxyRewrite(path) ==
    IF StartsWith(path, <<"/", "api">>) THEN SubSeq(path, 3, Len(path)) ELSE path

\* What the server is asked for when the page fetches url: the dev server
\* forwards a path under /api to chromaTarget, rewritten; an absolute URL goes
\* to its own origin.
Forwarded(url) ==
    IF StartsWith(url, <<"/", "api">>) THEN chromaTarget \o proxyRewrite(url) ELSE url

\* The paths the client builds: apiBase() or apiPrefix() and a route.
ClientPaths ==
    {<<"/", "api", "/", v>> \o route :
        v \in {"v1", "v2"},
        route \in {Seg("heartbeat"), Seg("version"), Seg("collections"),
                   Seg("collections") \o Seg("c1"),
                   Seg("collections") \o Seg("c1") \o Seg("count")}}
    \cup {<<"/", "api", "/", "v2", "/", "tenants", "/", DEFAULT_TENANT,
            "/", "databases", "/", DEFAULT_DATABASE, "/", "collections">>}

\* connectionContext check(): the heartbeat paths it tries.
heartbeatPaths == {HeartbeatV2, HeartbeatV1}

\* connectionContext check(): mode === "proxy" ? `/api${path}` : `${base}${path}`
checkUrl(path) ==
    IF getConnectionMode = <<"proxy">> THEN <<"/", "api">> \o path
    ELSE getBaseUrl \o path

\* A request of the client: its URL from resolveUrl, and what reaches the server.
ClientRequest(path) ==
    /\ urlCall' = [path |-> path, ret |-> resolveUrl(path),
                   sent |-> Forwarded(resolveUrl(path))]
    /\ UNCHANGED <<localStorage, detectedApiVersion, cachedCapabilities, server,
                   dc, tc, op, calls, fetchCall, req, probeLog, ga,
                   km, pca, heat, wr>>

\* A heartbeat request of the connection status check.
CheckRequest(path) ==
    /\ urlCall' = [path |-> path, ret |-> checkUrl(path),
                   sent |-> Forwarded(checkUrl(path))]
    /\ UNCHANGED <<localStorage, detectedApiVersion, cachedCapabilities, server,
                   dc, tc, op, calls, fetchCall, req, probeLog, ga,
                   km, pca, heat, wr>>

NextProxy ==
    \/ \E path \in ClientPaths : ClientRequest(path)
    \/ \E path \in heartbeatPaths : CheckRequest(path)

SpecProxy == InitApply /\ [][NextProxy]_vars

\* ---------------------------------------------------------------- timeouts

\* The operations whose fetch() is given controller.signal: those that go
\* through chromaFetch.  deleteCollection, addItems and deleteItems pass no
\* signal to fetch().
HasAbortSignal(fn) ==
    fn \in {"listCollections", "getCollection", "getCollectionCount",
            "getItems", "queryCollection"}

\* setTimeout(() => controller.abort(), timeout) fires while the request is in
\* flight: fetch() rejects with an AbortError and the operation throws.
opTimeout ==
    /\ op.pc = "await"
    /\ HasAbortSignal(op.fn)
    /\ op' = OpIdle
    /\ UNCHANGED <<localStorage, detectedApiVersion, cachedCapabilities, server,
                   dc, tc, calls, urlCall, fetchCall,
                   req, probeLog, ga, km, pca, heat, wr>>

\* The collection operations the pages call.
Operations ==
    \/ listCollections
    \/ \E name \in CollectionNames : getCollection(name)
    \/ \E id \in CollectionIds : getCollectionCount(id)
    \/ \E id \in CollectionIds : getItems(id)
    \/ \E id \in CollectionIds : queryCollection(id)
    \/ \E name \in CollectionNames : deleteCollection(name)
    \/ \E id \in CollectionIds : addItems(id)
    \/ \E id \in CollectionIds : deleteItems(id)

\* The collection operations against a server that may answer or stay silent.
NextLive ==
    \/ Operations
    \/ \E res \in ServerAnswers : OpSettle(res)
    \/ opTimeout

\* A page load under any connection settings.
InitLive == InitOver(Storages, Servers)

\* The event loop runs a timer that is due; nothing makes the server answer.
SpecLive == InitLive /\ [][NextLive]_vars /\ WF_vars(opTimeout)

\* ================================================================ properties

TenantPrefix ==
    <<"/", "api", "/", "v2", "/", "tenants", "/", "default_tenant",
      "/", "databases", "/", "default_database">>

FlatPrefix == <<"/", "api", "/", "v1">>

NoTenantSegment(path) ==
    \A i \in 1..Len(path) :
        path[i] \notin {"tenants", "databases", "default_tenant", "default_database"}

\* In this step the call t (t before, tn after) built the path of a request
\* from the cached version: it moved on to await a request other than the two
\* literal detection probes.
PathBuilt(t, tn) == tn.pc # t.pc /\ tn.pc \notin {"idle", "v2hb", "v1hb"}

\* The requests whose path is built with apiPrefix(), and with apiBase().
PrefixPcs ==
    {"await", "listCollections", "fetchCollections", "getCollection",
     "countCollection"}

BasePcs == {"heartbeat", "version"}

\* ---------------------------------------------------------------- C1

V1PathOk(t, tn) ==
    PathBuilt(t, tn) /\ detectedApiVersion' = "v1"
        => StartsWith(tn.path, FlatPrefix) /\ NoTenantSegment(tn.path)

\* C1: when a detection runs against a server whose v2 heartbeat probe fails and
\* whose v1 heartbeat probe succeeds, it writes "v1" (testConnection at its one
\* probe, detectCapabilities at its v1 probe, which it makes only after the v2
\* probe failed); and every path built while the cached version is "v1" starts
\* with /api/v1 and has no tenant or database segment.
C1_V1Pinned ==
    [][ /\ (tc.pc = "v2hb" /\ tc'.pc # "v2hb" /\ ~server.hb2 /\ server.hb1
                => detectedApiVersion' = "v1")
        /\ (dc.pc = "v1hb" /\ dc'.pc # "v1hb" /\ server.hb1
                => detectedApiVersion' = "v1")
        /\ V1PathOk(dc, dc')
        /\ V1PathOk(tc, tc')
        /\ V1PathOk(op, op') ]_vars

\* A detectCapabilities run that pinned v1 on a v1-only server and then built
\* its collection-list probe.
C1_Witness ==
    /\ ~server.hb2 /\ server.hb1
    /\ detectedApiVersion = "v1"
    /\ dc.pc = "listCollections"
    /\ dc.caps.heartbeat
    /\ dc.path = <<"/", "api", "/", "v1", "/", "collections">>

\* ---------------------------------------------------------------- C2

\* C2: in both detection routines the cached version is written "v2" exactly
\* when the v2 heartbeat probe succeeded and "v1" otherwise, whatever the v1
\* heartbeat answers.
C2_FallbackUnverified ==
    [][ /\ (tc.pc = "v2hb" /\ tc'.pc # "v2hb"
                => detectedApiVersion' = IF server.hb2 THEN "v2" ELSE "v1")
        /\ (dc.pc = "v2hb" /\ dc'.pc = "heartbeat"
                => server.hb2 /\ detectedApiVersion' = "v2")
        /\ (dc.pc = "v1hb" /\ dc'.pc # "v1hb"
                => detectedApiVersion' = "v1") ]_vars

\* ---------------------------------------------------------------- C3

\* C3: against a server whose heartbeat answers do not change, once a detection
\* has written the cached version every later detection run leaves it at that
\* value.
C3_Idempotent ==
    [][ detectedApiVersion # NULL => detectedApiVersion' = detectedApiVersion ]_vars

\* ---------------------------------------------------------------- C4

\* C4: no collection operation has built its path while the cached version is
\* still in its initial unknown state.
C4_DetectedBeforePaths ==
    op.pc = "await" => detectedApiVersion # NULL

\* ---------------------------------------------------------------- C5

PrefixFollowsVersion(t, tn) ==
    PathBuilt(t, tn) /\ tn.pc \in PrefixPcs
        => /\ detectedApiVersion' = "v2" => StartsWith(tn.path, TenantPrefix)
           /\ detectedApiVersion' = "v1"
                => StartsWith(tn.path, FlatPrefix) /\ NoTenantSegment(tn.path)

\* C5: every collection-operation path is built from the cached version as it is
\* at the moment of the build: the tenant/database prefix while it is "v2", the
\* flat /api/v1 prefix while it is "v1" - also on the first build after the
\* version changed.
C5_PrefixPerCall ==
    [][ /\ PrefixFollowsVersion(dc, dc')
        /\ PrefixFollowsVersion(op, op') ]_vars

\* A detectCapabilities run that read "v1" into caps.apiVersion and, the cached
\* version having been rewritten to "v2" meanwhile, built its next probe with
\* the tenant/database prefix.
C5_Witness ==
    /\ dc.pc = "getCollection"
    /\ dc.caps.apiVersion = "v1"
    /\ detectedApiVersion = "v2"
    /\ StartsWith(dc.path, TenantPrefix)

\* ---------------------------------------------------------------- C6

SamePrefixAsOperations(t, tn) ==
    PathBuilt(t, tn) /\ tn.pc \in BasePcs
        => tn.path = (IF detectedApiVersion' = "v2" THEN TenantPrefix ELSE FlatPrefix)
                        \o <<"/", tn.pc>>

\* C6 as claimed: the heartbeat and version requests are sent under the same
\* prefix as the collection operations.
C6_SamePrefix ==
    [][ SamePrefixAsOperations(dc, dc') /\ SamePrefixAsOperations(tc, tc') ]_vars

VersionRoot(t, tn) ==
    PathBuilt(t, tn) /\ tn.pc \in BasePcs
        => tn.path = <<"/", "api", "/", detectedApiVersion', "/", tn.pc>>

\* C6 amended: the heartbeat and version requests are sent to the version root,
\* /api/v2/heartbeat and /api/v2/version while the cached version is "v2",
\* /api/v1/heartbeat and /api/v1/version while it is "v1"; the tenant/database
\* segment is never part of them.
C6_VersionRoot ==
    [][ VersionRoot(dc, dc') /\ VersionRoot(tc, tc') ]_vars

\* testConnection asking a v2 server for its version.
C6_Witness ==
    /\ detectedApiVersion = "v2"
    /\ tc.pc = "version"
    /\ tc.path = <<"/", "api", "/", "v2", "/", "version">>

\* ---------------------------------------------------------------- C7

Range(sq) == {sq[i] : i \in 1..Len(sq)}

\* chromaFetch has settled: the Response or error fetch() gave, and the outcome.
Settled == fetchCall.out # <<>>

\* C8: for every response with a non-2xx status chromaFetch throws a ChromaError
\* whose status is the response status and whose message contains the body text
\* as read (nothing, when reading the body fails); the body is neither parsed as
\* JSON nor given to the schema, and no value is returned.
C8_HttpError ==
    Settled =>
        LET res == fetchCall.res[1]
            out == fetchCall.out[1]
            text == IF res.textFails THEN <<>> ELSE BodyText(res.body)
        IN  res.kind = "response" /\ (res.status < 200 \/ res.status > 299) =>
                /\ out.kind = "throw"
                /\ out.value = ""
                /\ out.err[1].name = "ChromaError"
                /\ out.err[1].status = <<res.status>>
                /\ Includes(out.err[1].message, text)
                /\ Range(out.reads) \cap {"json", "schema.parse"} = {}

\* A 404 with an HTML body, raised with its status and body text.
C8_Witness ==
    /\ Settled
    /\ fetchCall.res[1].status = 404
    /\ fetchCall.res[1].body = "html"
    /\ fetchCall.out[1].kind = "throw"
    /\ fetchCall.out[1].err[1].status = <<404>>
    /\ Includes(fetchCall.out[1].err[1].message, <<"<html>", "Not Found", "</html>">>)

\* ---------------------------------------------------------------- C9

\* C9: chromaFetch returns a value only if the response status was 2xx and its
\* JSON body passed the schema it was called with; a 2xx JSON body that fails
\* the schema makes it throw a ChromaError "Invalid response shape: ..." and
\* return nothing.
C9_ValidatedOrRaised ==
    Settled =>
        LET res == fetchCall.res[1]
            out == fetchCall.out[1]
            ok == res.kind = "response" /\ res.status \in 200..299
        IN  /\ out.kind = "return" =>
                /\ ok
                /\ BodyIsJson(res.body)
                /\ SchemaParses(fetchCall.schema, BodyJson(res.body))
                /\ out.value = res.body
            /\ (ok /\ BodyIsJson(res.body)
                   /\ ~SchemaParses(fetchCall.schema, BodyJson(res.body))) =>
                /\ out.kind = "throw"
                /\ out.value = ""
                /\ out.err[1].name = "ChromaError"
                /\ StartsWith(out.err[1].message, <<"Invalid response shape: ">>)

\* A 200 whose ids hold a number, refused by GetItemsResponseSchema.
C9_Witness ==
    /\ Settled
    /\ fetchCall.schema = "GetItemsResponseSchema"
    /\ fetchCall.res[1].status = 200
    /\ fetchCall.res[1].body = "itemsBad"
    /\ fetchCall.out[1].kind = "throw"
    /\ StartsWith(fetchCall.out[1].err[1].message, <<"Invalid response shape: ">>)

\* ---------------------------------------------------------------- C10

CorsSignature(message) ==
    \/ Includes(message, <<"Failed to fetch">>)
    \/ Includes(message, <<"NetworkError">>)
    \/ Includes(message, <<"Load failed">>)

\* C10: when fetch() throws a TypeError whose message holds a cross-origin
\* signature, chromaFetch throws an error with isCors = true; the errors it
\* throws for a non-2xx response, for a body that fails the schema and for a
\* timeout abort have isCors = false.
C10_CorsFlag ==
    Settled =>
        LET res == fetchCall.res[1]
            out == fetchCall.out[1]
            ok == res.kind = "response" /\ res.status \in 200..299
        IN  /\ (res.kind = "throw" /\ res.name = "TypeError"
                    /\ CorsSignature(res.message))
                => out.kind = "throw" /\ out.err[1].isCors
            /\ (res.kind = "response" /\ ~ok)
                => out.kind = "throw" /\ ~out.err[1].isCors
            /\ (ok /\ BodyIsJson(res.body)
                   /\ ~SchemaParses(fetchCall.schema, BodyJson(res.body)))
                => out.kind = "throw" /\ ~out.err[1].isCors
            /\ (res.kind = "throw" /\ res.name = "AbortError")
                => out.kind = "throw" /\ ~out.err[1].isCors
            /\ (out.kind = "throw" /\ out.err[1].status # <<>>)
                => ~out.err[1].isCors

\* fetch() rejected with TypeError("Failed to fetch"), classified as CORS.
C10_Witness ==
    /\ Settled
    /\ fetchCall.res[1].kind = "throw"
    /\ fetchCall.res[1].name = "TypeError"
    /\ fetchCall.res[1].message = <<"Failed to fetch">>
    /\ fetchCall.out[1].kind = "throw"
    /\ fetchCall.out[1].err[1].isCors

\* ---------------------------------------------------------------- C11

\* What made the request fail, from the settlement of fetch() itself.
FailureCause(res, schema) ==
    IF res.kind = "throw"
    THEN (IF res.name = "AbortError" THEN "timeout" ELSE "network")
    ELSE IF ~ResOk(res) THEN "http"
    ELSE "validation"

\* The fields of a ChromaError other than its message string.
StructuredFields(err) == <<err.name, err.status, err.isCors>>

\* C11: the kind of a failure of chromaFetch (HTTP error, validation failure,
\* network failure, timeout) can be told from the structured fields of the
\* error it throws: two failures of different kinds never throw errors whose
\* name, status and isCors all agree.
C11_KindFromFields ==
    (Settled /\ fetchCall.out[1].kind = "throw") =>
        \A res2 \in FetchResults :
            LET out2 == chromaFetch(res2, fetchCall.schema, fetchCall.timeout)
            IN  (/\ out2.kind = "throw"
                 /\ StructuredFields(out2.err[1])
                        = StructuredFields(fetchCall.out[1].err[1]))
                => FailureCause(res2, fetchCall.schema)
                        = FailureCause(fetchCall.res[1], fetchCall.schema)

\* ---------------------------------------------------------------- C12

\* C12: every collection operation that awaits its request eventually completes,
\* with a result or an error, even if the server never answers.
C12_EventuallyCompletes == (op.pc = "await") ~> (op.pc = "idle")

\* ---------------------------------------------------------------- C13

AuthHeaderNames == {"Authorization", "X-Chroma-Token"}

\* The string in a credentials field, "" when the field is absent.
StringOf(field) == IF field = <<>> THEN <<>> ELSE field[1]

\* C13 as stated: a request carries no auth header for "none", Authorization:
\* Bearer <token> for "token", Authorization: Basic <base64(user:pass)> for
\* "basic" and X-Chroma-Token: <token> for "x-chroma-token", whatever the
\* stored credentials and the connection mode, and never two auth headers.
C13_AuthAsSelected ==
    req.site # "" =>
        LET h == req.headers
            type == getAuthType
            c == getAuthCredentials
            auth == DOMAIN h \cap AuthHeaderNames
        IN  /\ type = <<"none">> => auth = {}
            /\ type = <<"token">> =>
                    /\ auth = {"Authorization"}
                    /\ h["Authorization"] = <<"Bearer ">> \o StringOf(c.token)
            /\ type = <<"basic">> =>
                    /\ auth = {"Authorization"}
                    /\ h["Authorization"] =
                            <<"Basic ">> \o btoa(StringOf(c.username) \o <<":">>
                                                \o StringOf(c.password))
            /\ type = <<"x-chroma-token">> =>
                    /\ auth = {"X-Chroma-Token"}
                    /\ h["X-Chroma-Token"] = StringOf(c.token)
            /\ Cardinality(auth) <= 1

\* C13: a request carries the auth header of the stored type when the stored
\* credential is not blank (token for "token" and "x-chroma-token", username
\* for "basic"), and no auth header at all when it is blank or the type is
\* "none"; never two auth headers; the connection mode plays no part.
C13_AuthWhenCredentialStored ==
    req.site # "" =>
        LET h == req.headers
            type == getAuthType
            c == getAuthCredentials
            auth == DOMAIN h \cap AuthHeaderNames
        IN  /\ type = <<"none">> => auth = {}
            /\ (type = <<"token">> /\ StringOf(c.token) # <<>>) =>
                    /\ auth = {"Authorization"}
                    /\ h["Authorization"] = <<"Bearer ">> \o StringOf(c.token)
            /\ (type = <<"basic">> /\ StringOf(c.username) # <<>>) =>
                    /\ auth = {"Authorization"}
                    /\ h["Authorization"] =
                            <<"Basic ">> \o btoa(StringOf(c.username) \o <<":">>
                                                \o StringOf(c.password))
            /\ (type = <<"x-chroma-token">> /\ StringOf(c.token) # <<>>) =>
                    /\ auth = {"X-Chroma-Token"}
                    /\ h["X-Chroma-Token"] = StringOf(c.token)
            /\ (type \in {<<"token">>, <<"x-chroma-token">>} /\ StringOf(c.token) = <<>>)
                    => auth = {}
            /\ (type = <<"basic">> /\ StringOf(c.username) = <<>>) => auth = {}
            /\ Cardinality(auth) <= 1
            /\ DOMAIN h \subseteq AuthHeaderNames \cup {"Content-Type"}

\* Basic auth stored as {"username":"u","password":"pw"} in proxy mode: addItems
\* sends Authorization: Basic dTpwdw== next to its Content-Type.
C13_Witness ==
    /\ req.site = "addItems"
    /\ getConnectionMode = <<"proxy">>
    /\ getItemOr(STORAGE_KEYS.AUTH_CREDENTIALS, <<>>) =
            <<"{", "\"username\"", ":", "\"", "u", "\"", ",",
              "\"password\"", ":", "\"", "p", "w", "\"", "}">>
    /\ req.headers = ("Authorization" :>
                        <<"Basic ", "d", "T", "p", "w", "d", "w", "=", "=">>)
                     @@ ContentTypeJson

\* ---------------------------------------------------------------- C14

\* A detection has run to its end: nothing is awaited and the log is its log.
Completed == dc.pc = "idle" /\ probeLog # <<>>

\* The awaits of detectCapabilities that assign probeUrl's result to the flag
\* of the same name.
FlagProbes ==
    {"heartbeat", "version", "listCollections", "getCollection", "countCollection"}

ItemFlags == {"getCollection", "countCollection", "getItems", "query"}

ProbedAt(at) == {probeLog[i] : i \in {j \in 1..Len(probeLog) : probeLog[j].at = at}}

\* C15: when listCollections() returns an empty list, the record reports
\* getCollection, countCollection, getItems and query all true although no
\* request for any of them was made; when the list probe fails or
\* listCollections() throws, it reports all four false.
C15_OptimisticWhenEmpty ==
    Completed =>
        /\ (\E e \in ProbedAt("fetchCollections") : e.ok /\ e.n = 0) =>
                /\ \A f \in ItemFlags : cachedCapabilities[1][f]
                /\ ProbedAt("getCollection") = {}
                /\ ProbedAt("countCollection") = {}
                /\ probeLog[Len(probeLog)].at = "fetchCollections"
        /\ (\/ \E e \in ProbedAt("listCollections") : ~e.ok
            \/ \E e \in ProbedAt("fetchCollections") : ~e.ok) =>
                \A f \in ItemFlags : ~cachedCapabilities[1][f]

\* A v1 server with no collection: five requests, the last the empty list, and
\* the four item flags true.
C15_Witness ==
    /\ Completed
    /\ cachedCapabilities[1].apiVersion = "v1"
    /\ probeLog[Len(probeLog)] =
            Probed("fetchCollections",
                   <<"/", "api", "/", "v1", "/", "collections">>, TRUE, 0)
    /\ \A f \in ItemFlags : cachedCapabilities[1][f]

\* ---------------------------------------------------------------- C16

\* C16: when listCollections() returns at least one collection, a flag among
\* getCollection, countCollection, getItems and query is true in the record
\* only if a request for that operation on the first collection was made in
\* this detection and answered.
C16_OnlyIfProbed ==
    (Completed /\ \E e \in ProbedAt("fetchCollections") : e.ok /\ e.n > 0) =>
        \A f \in ItemFlags :
            cachedCapabilities[1][f] =>
                \E e \in ProbedAt(f) : e.ok /\ Includes(e.path, Seg("c1"))

\* ---------------------------------------------------------------- C17

\* The awaits after which detectCapabilities may reach `cachedCapabilities = caps`.
LastAwaits == {"listCollections", "fetchCollections", "countCollection"}

\* A step that keeps to the rule of the cache.
CacheStep ==
    /\ cachedCapabilities' # cachedCapabilities =>
            (dc.pc \in LastAwaits /\ dc'.pc = "idle")
    /\ (dc.pc # "idle" /\ dc'.pc = "idle") =>
            /\ Len(cachedCapabilities') = 1
            /\ cachedCapabilities'[1].heartbeat = dc.caps.heartbeat
            /\ cachedCapabilities'[1].version = dc.caps.version
            /\ cachedCapabilities'[1].apiVersion \in ApiVersions
    /\ (dc.pc = "idle" \/ dc'.pc # "idle") =>
            cachedCapabilities' = cachedCapabilities

\* C17: cachedCapabilities is null when the module is loaded; it changes only
\* in the step that completes a detectCapabilities call, which stores the
\* record that call built (never null again); no collection operation,
\* testConnection step, failure or server change writes or clears it.
C17_CacheFollowsDetection == (cachedCapabilities = <<>>) /\ [][CacheStep]_vars

\* A record is cached and a collection operation is awaiting its answer, with
\* no detection running.
C17_Witness ==
    /\ Len(cachedCapabilities) = 1
    /\ dc.pc = "idle"
    /\ op.pc = "await"

\* ---------------------------------------------------------------- C18

Ceil(a, b) == (a + b - 1) \div b

\* The ids of the pages received, from page i on, in the order received.
RECURSIVE IdsOf(_, _)
IdsOf(pages, i) ==
    IF i > Len(pages) THEN <<>>
    ELSE PageOf((i - 1) * pageSize, pages[i].n, pages[i].shape).ids
            \o IdsOf(pages, i + 1)

\* Every page received held the records the count promised from its offset on.
AsCounted ==
    \A i \in 1..Len(ga.pages) :
        ga.pages[i].n = Min(pageSize, ga.totalCount - (i - 1) * pageSize)

\* C18: getAllItems asks for pages of 500 at offsets 0, 500, 1000, ... in that
\* order, the next one only once the page before is appended; when it returns
\* it has made exactly ceil(totalCount / 500) requests and its ids are the ids
\* of the pages in the order received (totalCount records when every page held
\* what the count promised).
C18_SequentialPages ==
    /\ \A i \in 1..Len(ga.requested) :
            ga.requested[i] = [limit |-> 500, offset |-> (i - 1) * 500]
    /\ Len(ga.requested) <= Ceil(ga.totalCount, 500)
    /\ ga.pc = "await" =>
            /\ Len(ga.requested) = Len(ga.pages) + 1
            /\ ga.offset = Len(ga.pages) * 500
            /\ ga.allIds = IdsOf(ga.pages, 1)
    /\ ga.ret # <<>> =>
            /\ Len(ga.requested) = Ceil(ga.totalCount, 500)
            /\ Len(ga.pages) = Len(ga.requested)
            /\ ga.ret[1].ids = IdsOf(ga.pages, 1)
            /\ AsCounted => ga.ret[1].ids = [k \in 1..ga.totalCount |-> k]

\* totalCount = 1200 against a server serving 500, 500 and 200 records: three
\* requests, 1200 records.
C18_Witness ==
    /\ ga.ret # <<>>
    /\ ga.totalCount = 1200
    /\ ga.requested = <<[limit |-> 500, offset |-> 0], [limit |-> 500, offset |-> 500],
                        [limit |-> 500, offset |-> 1000]>>
    /\ ga.pages[3].n = 200
    /\ Len(ga.ret[1].ids) = 1200

\* ---------------------------------------------------------------- C19

\* C19: in the batch getAllItems returns, each of documents, metadatas and
\* embeddings that is present is as long as ids, and its entry i is null or
\* belongs to the record ids[i], whichever fields the pages left out.
C19_Aligned ==
    ga.ret # <<>> =>
        \A field \in {"documents", "metadatas", "embeddings"} :
            ga.ret[1][field] # <<>> =>
                /\ Len(ga.ret[1][field][1]) = Len(ga.ret[1].ids)
                /\ \A i \in 1..Len(ga.ret[1].ids) :
                        ga.ret[1][field][1][i] \in {NullEntry, ga.ret[1].ids[i]}

\* ---------------------------------------------------------------- C20

\* C20: when a page request fails, getAllItems throws that error, issues no
\* further request and returns no batch; a batch is returned only when every
\* page requested was received.
C20_FirstErrorPropagates ==
    /\ ga.err # <<>> =>
            /\ ga.pc = "idle"
            /\ ga.ret = <<>>
            /\ ga.err[1] \in GetItemsErrors
            /\ Len(ga.requested) = Len(ga.pages) + 1
    /\ ga.ret # <<>> =>
            /\ ga.err = <<>>
            /\ Len(ga.pages) = Len(ga.requested)

\* The third page of 1200 records timed out after two pages were received.
C20_Witness ==
    /\ ga.err # <<>>
    /\ ga.err[1].message = <<"Request timed out after ", "15000", "ms">>
    /\ ga.totalCount = 1200
    /\ Len(ga.pages) = 2
    /\ Len(ga.requested) = 3
    /\ ga.ret = <<>>

\* ---------------------------------------------------------------- C21

\* C21: against a server that answers every page request, getAllItems always
\* comes to an end: it never makes more than ceil(totalCount / 500) requests,
\* all of them page requests, whatever the pages hold, and each call returns or
\* throws.  Pages that come back short or empty give a shorter batch, returned
\* without an error.
C21_Terminates ==
    /\ [](/\ Len(ga.requested) <= Ceil(ga.totalCount, pageSize)
          /\ \A i \in 1..Len(ga.requested) :
                ga.requested[i] = PageRequest((i - 1) * pageSize)
          /\ (ga.pc = "idle" /\ Len(ga.pages) = Len(ga.requested)
                /\ ga.requested # <<>>)
                => (ga.ret # <<>> /\ ga.err = <<>>))
    /\ (ga.pc = "await") ~> (ga.pc = "idle" /\ (ga.ret # <<>> \/ ga.err # <<>>))

\* 1200 records were counted, the collection was emptied after the first page:
\* three requests, 500 ids returned, no error.
C21_Witness ==
    /\ ga.pc = "idle"
    /\ ga.totalCount = 1200
    /\ Len(ga.requested) = 3
    /\ Len(ga.pages) = 3
    /\ ga.pages[2].n = 0 /\ ga.pages[3].n = 0
    /\ ga.err = <<>>
    /\ ga.ret # <<>>
    /\ Len(ga.ret[1].ids) = 500

\* ---------------------------------------------------------------- C22

\* What C22 asks of a returned clustering: one label per point, each label in
\* [0, k), exactly k centroids, and with maxIter = 0 the centroids are the
\* seeds (copies of the points picked), unmoved.
ValidClustering ==
    LET r == km.ret[1]
    IN  /\ Len(r.labels) = Len(km.points)
        /\ \A i \in 1..Len(r.labels) : r.labels[i] >= 0 /\ r.labels[i] < km.k
        /\ Len(r.centroids) = km.k
        /\ km.maxIter = 0 =>
              /\ Len(km.picked) = Len(r.centroids)
              /\ \A j \in 1..Len(r.centroids) : r.centroids[j] = km.points[km.picked[j]]

\* C22, as stated: for every point list, every k and every maxIter (0
\* included), kMeans returns one label per point, each in [0, k), and exactly
\* k centroids; with maxIter = 0 the centroids are the unmoved seeds.
C22_ValidForEveryInput ==
    km.ret # <<>> => ValidClustering

\* C22, as the code has it: the same, for a non-empty point list and k >= 1.
\* (The empty list returns no centroid at all, and k <= 0 returns one centroid
\* and the label 0.)
C22_ValidForPointsAndK ==
    (km.ret # <<>> /\ Len(km.points) >= 1 /\ km.k >= 1) => ValidClustering

\* k = 3 over two points, no iteration: three seeds returned, all labels 0.
C22_Witness ==
    /\ km.ret # <<>>
    /\ Len(km.points) = 2
    /\ km.k = 3
    /\ km.maxIter = 0
    /\ Len(km.ret[1].centroids) = 3
    /\ km.ret[1].labels = <<0, 0>>

\* More clusters than points, iterated to a fixed point.
C22_WitnessIterated ==
    /\ km.ret # <<>>
    /\ km.k = 2
    /\ km.iter = 2
    /\ \E i \in 1..Len(km.points) : km.ret[1].labels[i] = 1

\* ---------------------------------------------------------------- C26

\* One pass of the iteration loop, from the centroids before it (km) to the
\* centroids and labels after it (km').
C26_IterationStep ==
    (km.pc = "iterate" /\ km'.iter = km.iter + 1) =>
        /\ \A j \in 1..km.k :
              LET assigned == {i \in 1..Len(km.points) : km'.labels[i] = j - 1}
              IN  IF assigned = {}
                  THEN km'.centroids[j] = km.centroids[j]
                  ELSE /\ Cardinality(assigned) * km'.centroids[j].x
                            = SumOver([i \in 1..Len(km.points) |-> km.points[i].x], assigned)
                       /\ Cardinality(assigned) * km'.centroids[j].y
                            = SumOver([i \in 1..Len(km.points) |-> km.points[i].y], assigned)
        /\ (km'.pc = "done") <=>
              (km'.centroids = km.centroids \/ km'.iter = km.maxIter)
        /\ km'.pc = "done" => km'.ret = <<[labels |-> km'.labels, centroids |-> km'.centroids]>>

\* C26: in each k-means iteration a centroid with no point assigned keeps its
\* coordinates and every other centroid becomes the mean of its points; the
\* run stops at the first iteration that moved no centroid, and otherwise
\* after maxIter iterations.
C26_EmptyKeptOthersMean ==
    [][C26_IterationStep]_vars

\* Stopped after the first of two iterations allowed, with a centroid that has
\* no point and has stayed where it was seeded, away from the origin.
C26_Witness ==
    /\ km.pc = "done"
    /\ km.iter = 1
    /\ km.maxIter = 2
    /\ \E j \in 1..km.k :
          /\ \A i \in 1..Len(km.points) : km.labels[i] # j - 1
          /\ km.centroids[j] = km.points[km.picked[j]]
          /\ km.centroids[j] # [x |-> 0, y |-> 0]

\* ---------------------------------------------------------------- C27

\* One pass of the seeding loop: the seed pushed is a copy of the point
\* picked, and the point picked is not at squared distance 0 from the seeds
\* so far while another point is further away.
C27_SeedStep ==
    (km.pc = "seed" /\ Len(km'.picked) = Len(km.picked) + 1) =>
        LET dists == SeedDists(km.points, km.centroids)
            i     == km'.picked[Len(km'.picked)]
        IN  /\ km'.centroids[Len(km'.centroids)] = km.points[i]
            /\ ~(dists[i] = 0 /\ \E j \in 1..Len(dists) : dists[j] > 0)

\* C27: every seed is a copy of an input point, and for every random draw a
\* point at squared distance 0 from the seeds so far is never picked while
\* some other point has a positive squared distance.
C27_ZeroWeightNeverPicked ==
    [][C27_SeedStep]_vars

\* ---------------------------------------------------------------- C23

\* n times the projection of vector i of vs on component: the vector less the
\* mean of all, times n, dotted with the component.
ScaledProjection(vs, i, component) ==
    SumTo([j \in 1..Len(vs[i]) |->
              (Len(vs) * vs[i][j] - SumTo([m \in 1..Len(vs) |-> vs[m][j]], Len(vs)))
                  * component[j]],
          Len(vs[i]))

\* C23: pcaProject returns exactly one {x, y} per input vector, pair i being
\* the projection of vector i (on the two components it found), for every
\* n >= 0; and the points of VisualizeTab pair each with the id of its record.
C23_OnePairPerVector ==
    pca.called =>
        LET vs  == pca.embeddings
            out == pca.ret[1]
        IN  /\ Len(out) = Len(vs)
            /\ \A i \in 1..Len(vs) :
                  /\ Len(vs) * out[i].x = ScaledProjection(vs, i, pca.pc1)
                  /\ Len(vs) * out[i].y = ScaledProjection(vs, i, pca.pc2)
            /\ pca.data # <<>> =>
                  LET all == pca.data[1].embeddings[1]
                      ok  == {i \in 1..Len(all) : all[i] # <<>> /\ all[i][1] # <<>>}
                  IN  /\ Len(pca.points) = Cardinality(ok)
                      /\ \A r \in 1..Len(pca.points) :
                            \E i \in ok :
                                /\ Cardinality({h \in ok : h <= i}) = r
                                /\ pca.points[r].id = <<"id", i>>
                                /\ vs[r] = all[i][1]
                                /\ pca.points[r].x = out[r].x
                                /\ pca.points[r].y = out[r].y

\* Three records, the second without an embedding: two points, of the first
\* and the third record, at different places.
C23_Witness ==
    /\ pca.called
    /\ pca.data # <<>>
    /\ Len(pca.data[1].ids) = 3
    /\ Len(pca.points) = 2
    /\ pca.points[1].id = <<"id", 1>>
    /\ pca.points[2].id = <<"id", 3>>
    /\ pca.points[1].x # pca.points[2].x

\* The empty input and the single vector.
C23_WitnessEmpty ==
    /\ pca.called
    /\ pca.data = <<>>
    /\ pca.embeddings = <<>>
    /\ pca.ret = << <<>> >>

\* ---------------------------------------------------------------- C24

\* The indices of the embeddings that are present, and the r-th of them.
PresentIndices == {i \in 1..Len(heat.embeddings) : heat.embeddings[i] # <<>>}

PresentAt(r) ==
    CHOOSE i \in PresentIndices : Cardinality({h \in PresentIndices : h <= i}) = r

IsZeroVector(v) == \A j \in 1..Len(v) : v[j] = 0

\* The matrix is square of size N = min(sampleSize, present embeddings), over
\* the first N present embeddings in their order.
HeatSample ==
    LET N == Min(heat.sampleSize, Cardinality(PresentIndices))
    IN  /\ Len(heat.validData) = N
        /\ Len(heat.matrix) = N
        /\ \A i \in 1..N : Len(heat.matrix[i]) = N
        /\ \A r \in 1..N :
              /\ heat.validData[r].emb = heat.embeddings[PresentAt(r)][1]
              /\ heat.validData[r].id = <<"id", PresentAt(r)>>

\* Diagonal exactly 1, symmetric, and 0 for a pair with a zero vector.
HeatCells ==
    \A i \in 1..Len(heat.matrix) : \A j \in 1..Len(heat.matrix) :
        /\ i = j => heat.matrix[i][j] = One
        /\ heat.matrix[i][j] = heat.matrix[j][i]
        /\ (i # j /\ (IsZeroVector(heat.validData[i].emb)
                        \/ IsZeroVector(heat.validData[j].emb)))
              => heat.matrix[i][j] = Zero

\* Every entry lies in [-1, 1].
HeatRange ==
    \A i \in 1..Len(heat.matrix) : \A j \in 1..Len(heat.matrix) :
        InUnitRange(heat.matrix[i][j])

\* C24: the similarity matrix is square of size N = min(sample cap, present
\* embeddings) over the first N present embeddings in order; its diagonal is
\* exactly 1, it is symmetric, every entry lies in [-1, 1], and a pair with a
\* zero-magnitude vector has similarity 0.
C24_SimilarityMatrix ==
    heat.pc = "shown" => (HeatSample /\ HeatCells /\ HeatRange)

\* C24 without the range of the entries.
C24_SampleAndCells ==
    heat.pc = "shown" => (HeatSample /\ HeatCells)

\* A cap of 2 over three present embeddings of which one follows a null.
C24_Capped ==
    /\ heat.pc = "shown"
    /\ heat.sampleSize = 2
    /\ Cardinality(PresentIndices) = 3
    /\ heat.embeddings[1] = <<>>
    /\ ~IsZeroVector(heat.validData[1].emb)
    /\ IsZeroVector(heat.validData[2].emb)

\* ---------------------------------------------------------------- C25

\* A rejection of fetch() with the signature of a cross-origin failure.
CorsFailure(res) ==
    /\ res.kind = "throw"
    /\ res.name = "TypeError"
    /\ CorsSignature(res.message)

\* C25: deleteCollection, addItems and deleteItems raise a transport failure
\* as the typed client error, as the read operations do: a ChromaError with
\* isCors = true when the failure has the cross-origin signature and with
\* isCors = false otherwise.
C25_UniformTaxonomy ==
    (wr.pc = "idle" /\ wr.res # <<>> /\ wr.res[1].kind = "throw") =>
        /\ wr.out[1].kind = "throw"
        /\ wr.out[1].err[1].name = "ChromaError"
        /\ wr.out[1].err[1].isCors = CorsFailure(wr.res[1])

\* ---------------------------------------------------------------- C28

\* The version the detection under way (or just completed) detected, from its
\* own heartbeat probes; NULL while it has not detected one.
RunDetected ==
    IF probeLog = <<>> THEN NULL
    ELSE IF probeLog[1].ok THEN "v2"
    ELSE IF Len(probeLog) < 2 THEN NULL
    ELSE IF probeLog[2].ok THEN "v1" ELSE "v2"

VersionedPath(path, version) == StartsWith(path, <<"/", "api", "/", version>>)

\* The awaits whose path is built from apiBase() or apiPrefix().
VersionedAwaits ==
    {"heartbeat", "version", "listCollections", "fetchCollections",
     "getCollection", "countCollection"}

\* C28: however a testConnection run interleaves with a detectCapabilities
\* run, every path the detection builds from the version, and the apiVersion
\* it reports, use the one version that this detection detected.
C28_OneVersionPerRun ==
    /\ \A i \in 1..Len(probeLog) :
          probeLog[i].at \in VersionedAwaits
              => VersionedPath(probeLog[i].path, RunDetected)
    /\ dc.pc \in VersionedAwaits => VersionedPath(dc.path, RunDetected)
    /\ Completed => cachedCapabilities[1].apiVersion = RunDetected

\* ---------------------------------------------------------------- C29

\* C29: whenever capabilities are cached and neither detectCapabilities nor
\* testConnection is running, the apiVersion of the cached capabilities is
\* the detectedApiVersion that apiBase() and apiPrefix() build paths from.
C29_CacheAgreesWithVersion ==
    (cachedCapabilities # <<>> /\ dc.pc = "idle" /\ tc.pc = "idle")
        => cachedCapabilities[1].apiVersion = detectedApiVersion

\* ---------------------------------------------------------------- C30

\* C30: proxy mode and direct mode ask the server for the same path.  For
\* every path p the client builds, the proxy's rewrite of the proxy-mode URL
\* is p itself, with its /api/v1 or /api/v2 segment, which is what direct mode
\* appends to the base URL; so the server is asked for p at chromaTarget in
\* proxy mode and for p at the base URL in direct mode.
C30_SamePathBothModes ==
    urlCall.ret # <<>> =>
        /\ \/ StartsWith(urlCall.path, <<"/", "api", "/", "v1">>)
           \/ StartsWith(urlCall.path, <<"/", "api", "/", "v2">>)
        /\ getConnectionMode = <<"proxy">> =>
              /\ proxyRewrite(urlCall.ret) = urlCall.path
              /\ urlCall.sent = chromaTarget \o urlCall.path
        /\ getConnectionMode = <<"direct">> =>
              /\ urlCall.ret = getBaseUrl \o urlCall.path
              /\ urlCall.sent = getBaseUrl \o urlCall.path

\* The v2 collections route requested in proxy mode.
C30_Witness ==
    /\ getConnectionMode = <<"proxy">>
    /\ urlCall.ret = <<"/", "api", "/", "api", "/", "v2", "/", "collections">>
    /\ urlCall.sent = <<"http://localhost:8000", "/", "api", "/", "v2", "/", "collections">>

====
